---- MODULE Spec2Model ----
(***************************************************************************)
(* Model of the retry executor (withRetry) and of the process-wide         *)
(* blockhash cache (getCachedBlockhash) of src/src/utils.ts.               *)
(*                                                                         *)
(* JavaScript runs every piece of code between two awaits to completion,   *)
(* so one action of the model is one such piece: the code from the         *)
(* resumption of an await up to the next await, return or throw.           *)
(*                                                                         *)
(* Messages are sequences of word tokens; a regular expression of the      *)
(* default retryableErrors list is a sequence of tokens that has to occur  *)
(* contiguously in the error string.  Durations are integers; a sleep is   *)
(* stored multiplied by SleepScale so that the jitter factor               *)
(* 0.5 + Math.random() stays an integer ratio.                             *)
(***************************************************************************)
EXTENDS Integers, Sequences, FiniteSets, TLC

\* ---------------------------------------------------------------- bounds
MaxAttemptsBound == 3
MaxInitialDelay == 2
JitterSteps == 2
MaxHeight == 2
MaxCalls == 3
BlockhashValidity == 1
ConcFailureBudget == 1
SeqFailureBudget == 5

\* ------------------------------------------------------- basic operators
Min(a, b) == IF a <= b THEN a ELSE b

Last(s) == s[Len(s)]

RECURSIVE Pow(_, _)
Pow(b, e) == IF e = 0 THEN 1 ELSE b * Pow(b, e - 1)

SleepScale == 2 * JitterSteps

\* ------------------------------------------------------ errors (errors.ts)
\* An error object: its name, its message, the status of error.response
\* (0: no response/status on the object) and RetryError's attempts field.
MkError(name, msg, status) ==
    [name |-> name, msg |-> msg, status |-> status, attempts |-> 0]

DigitTok(d) == <<"0", "1", "2", "3", "4", "5", "6", "7", "8", "9">>[d + 1]

\* template literal `${attempt}`
NumTok(n) == IF n < 10 THEN DigitTok(n) ELSE "many"

\* new RetryError(`Failed after ${attempt} attempts: ${error.message}`, attempt)
RetryError(attempt, e) ==
    [name |-> "RetryError",
     msg |-> <<"Failed", "after", NumTok(attempt), "attempts:">> \o e.msg,
     status |-> 0,
     attempts |-> attempt]

\* ------------------------------------------------- error classification
LowerTok(t) ==
    CASE t = "Timeout" -> "timeout"
      [] t = "Request" -> "request"
      [] t = "Network" -> "network"
      [] t = "Error" -> "error"
      [] t = "Socket" -> "socket"
      [] t = "Internal" -> "internal"
      [] t = "Server" -> "server"
      [] t = "Connection" -> "connection"
      [] t = "Rate" -> "rate"
      [] t = "ConnectionError" -> "connectionerror"
      [] OTHER -> t

\* "5dd" stands for the 5\d\d of /Server responded with 5\d\d/
TokMatch(pt, t, ci) ==
    IF pt = "5dd" THEN t \in {"500", "502", "503", "504"}
    ELSE IF ci THEN LowerTok(t) = LowerTok(pt)
    ELSE t = pt

\* pattern.test(errorString)
PatternTest(p, s) ==
    \E k \in 0..(Len(s) - Len(p.toks)) :
        \A j \in 1..Len(p.toks) : TokMatch(p.toks[j], s[k + j], p.ci)

Pat(toks, ci) == [toks |-> toks, ci |-> ci]

DefaultRetryableErrors ==
    { Pat(<<"429">>, FALSE),
      Pat(<<"Too", "many", "requests">>, FALSE),
      Pat(<<"timeout">>, TRUE),
      Pat(<<"ConnectionError">>, TRUE),
      Pat(<<"Network", "Error">>, TRUE),
      Pat(<<"EAI_AGAIN">>, FALSE),
      Pat(<<"ETIMEDOUT">>, FALSE),
      Pat(<<"ECONNRESET">>, FALSE),
      Pat(<<"ECONNREFUSED">>, FALSE),
      Pat(<<"socket", "hang", "up">>, TRUE),
      Pat(<<"Server", "responded", "with", "5dd">>, FALSE),
      Pat(<<"internal", "server", "error">>, TRUE),
      Pat(<<"Connection", "terminated">>, TRUE),
      Pat(<<"rate", "limit">>, TRUE) }

\* error.toString(): "<name>: <message>"
ErrorString(e) == <<e.name>> \o e.msg

\* retryableErrors.some(pattern => pattern.test(errorString))
ShouldRetry(e) == \E p \in DefaultRetryableErrors : PatternTest(p, ErrorString(e))

IsRetryableStatusCodeNo408(e) ==
    e.status # 0 /\ (e.status = 429 \/ e.status >= 500)

\* statusCode && (statusCode === 429 || statusCode >= 500 || statusCode === 408)
IsRetryableStatusCode(e) ==
    e.status # 0 /\ (e.status = 429 \/ e.status >= 500 \/ e.status = 408)

\* the catch block goes on to sleep: !( !shouldRetry && !isRetryableStatusCode )
Retryable(e) == ShouldRetry(e) \/ IsRetryableStatusCode(e)

ExhaustedOffByOne(attempt, maxAttempts) == attempt + 1 >= maxAttempts

ExhaustedLate(attempt, maxAttempts) == attempt > maxAttempts

\* if (attempt >= maxAttempts)
Exhausted(attempt, maxAttempts) == attempt >= maxAttempts

\* ------------------------------------------------------------- back-off
\* delay * (0.5 + Math.random()) with Math.random() = k / JitterSteps, or
\* delay itself without jitter; the result is multiplied by SleepScale.
JitterDelay(delay, jitter, k) ==
    IF jitter THEN delay * (JitterSteps + 2 * k) ELSE delay * SleepScale

NextDelayUncapped(delay, factor, maxDelay) == delay * factor

\* delay = Math.min(delay * factor, maxDelay)
NextDelay(delay, factor, maxDelay) == Min(delay * factor, maxDelay)

BumpAll(f, i) == [j \in DOMAIN f |-> f[j] + 1]

\* attempt++ on the invocation's own local variable
Bump(f, i) == [f EXCEPT ![i] = @ + 1]

\* ------------------------------------------------------------- inputs
Invocations == {"a", "b"}

Policies ==
    [maxAttempts : 1..MaxAttemptsBound,
     initialDelay : 1..MaxInitialDelay,
     maxDelay : {3},
     factor : {2, 3},
     jitter : BOOLEAN]

\* const { maxAttempts = 5, initialDelay = 500, maxDelay = 10000, factor = 2,
\*         jitter = true } = options   (in units of 500 ms)
DefaultPolicy ==
    [maxAttempts |-> 5, initialDelay |-> 1, maxDelay |-> 20, factor |-> 2,
     jitter |-> TRUE]

ENotFound == MkError("Error", <<"Not", "found">>, 404)
ETooMany == MkError("Error", <<"Too", "many", "requests">>, 429)
ETimeout404 == MkError("Error", <<"Request", "Timeout">>, 404)
EExpired408 == MkError("Error", <<"Request", "expired">>, 408)
EUnavailable503 == MkError("Error", <<"Service", "unavailable">>, 503)
EHangUp == MkError("Error", <<"socket", "hang", "up">>, 0)
EValidation == MkError("ValidationError", <<"bad", "input">>, 0)

Errors ==
    {ENotFound, ETooMany, ETimeout404, EExpired408, EUnavailable503, EHangUp,
     EValidation}

Values == {[v |-> "v1"], [v |-> "v2"]}

\* the inputs of the concurrent invocations
ConcPolicies ==
    [maxAttempts : {2, 3}, initialDelay : {1}, maxDelay : {3}, factor : {2},
     jitter : BOOLEAN]

ConcErrors == {ENotFound, ETooMany, EHangUp}

ConcValues == {[v |-> "v1"]}

\* the failures of the ledger node
RpcErrors == {ETooMany, ENotFound}

\* ----------------------------------------------------------------- state
VARIABLES
    pol,      \* pol[i]: the options of invocation i
    pc,       \* "idle", "awaiting" (operation pending), "sleeping",
              \* "returned", "thrown"
    attempt,  \* let attempt
    delay,    \* let delay
    calls,    \* number of times operation() was invoked
    fails,    \* the failures of the operation so far, in order
    sleeps,   \* the setTimeout durations so far (times SleepScale), in order
    bases,    \* the value of delay at each of these sleeps
    okValue,  \* the value the operation resolved with (Null while it has not)
    result    \* what the invocation returned or threw

retryVars ==
    <<pol, pc, attempt, delay, calls, fails, sleeps, bases, okValue, result>>

\* the module-level cache of utils.ts, the ledger behind the connection, and
\* the getCachedBlockhash calls
VARIABLES
    cachedBlockhash,      \* let cachedBlockhash (Null: null)
    blockhashExpirySlot,  \* let blockhashExpirySlot
    cpc,      \* cpc[c]: "idle", "slot" (awaiting withRetry(getSlot)), "fetch"
              \* (awaiting withRetry(getLatestBlockhash)), "done", "failed"
    ret,      \* what the call of caller c returned or threw
    call,     \* what the current call of caller c has read and done so far
    reply,    \* the response of the ledger to the pending request of c
    height,   \* the height of the ledger
    issued,   \* the getLatestBlockhash responses handed out so far
    rpcFailures,  \* number of failed requests so far
    completed,    \* number of completed calls
    log       \* the last two completed calls, in order of completion, kept
              \* when the calls are made one after the other

cacheVars ==
    <<cachedBlockhash, blockhashExpirySlot, cpc, ret, call, reply, height,
      issued, rpcFailures,
                   completed, log>>

\* trackTransaction (utils.ts): position, arguments, Date.now() - startTime,
\* the outcome, and what the call has done so far
VARIABLES
    tpc,          \* "idle", "poll", "getTx", "sleeping", "returned", "thrown"
    tsig,         \* signature
    timeoutMs,    \* timeoutMs
    elapsed,      \* Date.now() - startTime, in ms
    tres,         \* what the call returned or threw
    polls,        \* withRetry(getSignatureStatus) entered so far
    pollSleeps,   \* 2000 ms timers set so far
    txFetches,    \* withRetry(getTransaction) entered so far
    lastStatus,   \* the status the last completed poll returned
    tracked       \* trackTransaction calls made

trackVars ==
    <<tpc, tsig, timeoutMs, elapsed, tres, polls, pollSleeps, txFetches,
      lastStatus, tracked>>

\* pumpFunBuy / pumpFunSell (swap.ts): position, arguments, locals, outcome,
\* and the network requests the call has issued
VARIABLES
    spc,          \* "idle", "coin", "account", "blockhash", "submit",
                  \* "track", "simulate", "done", "failed"
    args,         \* the arguments of the call
    loc,          \* its locals: coinData, tokenAccountInfo, quote, transaction
    outcome,      \* what the call returned or threw
    net,          \* requests issued by this call, per kind
    order         \* the kinds of request in the order first issued

swapVars == <<spc, args, loc, outcome, net, order>>

vars == <<retryVars, cacheVars, trackVars, swapVars>>

Null == [kind |-> "null"]
NoResult == [kind |-> "none"]
Returned(v) == [kind |-> "value", value |-> v]
Thrown(e) == [kind |-> "error", error |-> e]

RetryInit ==
    /\ pol = [i \in Invocations |-> DefaultPolicy]
    /\ pc = [i \in Invocations |-> "idle"]
    /\ attempt = [i \in Invocations |-> 0]
    /\ delay = [i \in Invocations |-> 0]
    /\ calls = [i \in Invocations |-> 0]
    /\ fails = [i \in Invocations |-> <<>>]
    /\ sleeps = [i \in Invocations |-> <<>>]
    /\ bases = [i \in Invocations |-> <<>>]
    /\ okValue = [i \in Invocations |-> Null]
    /\ result = [i \in Invocations |-> NoResult]

\* withRetry(operation, p) up to the first await: attempt = 1,
\* delay = initialDelay, operation() is invoked.
Invoke(i, p) ==
    /\ pol' = [pol EXCEPT ![i] = p]
    /\ attempt' = [attempt EXCEPT ![i] = 1]
    /\ delay' = [delay EXCEPT ![i] = p.initialDelay]
    /\ calls' = [calls EXCEPT ![i] = 1]
    /\ pc' = [pc EXCEPT ![i] = "awaiting"]
    /\ fails' = [fails EXCEPT ![i] = <<>>]
    /\ sleeps' = [sleeps EXCEPT ![i] = <<>>]
    /\ bases' = [bases EXCEPT ![i] = <<>>]
    /\ okValue' = [okValue EXCEPT ![i] = Null]
    /\ result' = [result EXCEPT ![i] = NoResult]

Start(i, p) ==
    /\ pc[i] = "idle"
    /\ Invoke(i, p)

\* the invocation is over and its locals are gone
Discard(i) ==
    /\ pol' = [pol EXCEPT ![i] = DefaultPolicy]
    /\ attempt' = [attempt EXCEPT ![i] = 0]
    /\ delay' = [delay EXCEPT ![i] = 0]
    /\ calls' = [calls EXCEPT ![i] = 0]
    /\ pc' = [pc EXCEPT ![i] = "idle"]
    /\ fails' = [fails EXCEPT ![i] = <<>>]
    /\ sleeps' = [sleeps EXCEPT ![i] = <<>>]
    /\ bases' = [bases EXCEPT ![i] = <<>>]
    /\ okValue' = [okValue EXCEPT ![i] = Null]
    /\ result' = [result EXCEPT ![i] = NoResult]

\* return await operation()
Resolve(i, v) ==
    /\ pc[i] = "awaiting"
    /\ pc' = [pc EXCEPT ![i] = "returned"]
    /\ okValue' = [okValue EXCEPT ![i] = v]
    /\ result' = [result EXCEPT ![i] = Returned(v)]
    /\ UNCHANGED <<pol, attempt, delay, calls, fails, sleeps, bases>>

RejectSleepsBeforeThrow(i, e, k) ==
    /\ pc[i] = "awaiting"
    /\ fails' = [fails EXCEPT ![i] = Append(@, e)]
    /\ sleeps' = [sleeps EXCEPT
                    ![i] = Append(@, JitterDelay(delay[i], pol[i].jitter, k))]
    /\ bases' = [bases EXCEPT ![i] = Append(@, delay[i])]
    /\ IF Exhausted(attempt[i], pol[i].maxAttempts)
       THEN /\ pc' = [pc EXCEPT ![i] = "thrown"]
            /\ result' = [result EXCEPT ![i] = Thrown(RetryError(attempt[i], e))]
       ELSE IF ~Retryable(e)
       THEN /\ pc' = [pc EXCEPT ![i] = "thrown"]
            /\ result' = [result EXCEPT ![i] = Thrown(e)]
       ELSE /\ pc' = [pc EXCEPT ![i] = "sleeping"]
            /\ UNCHANGED result
    /\ UNCHANGED <<pol, attempt, delay, calls, okValue>>

\* catch (error): RetryError when the attempts are used up, the error itself
\* when it is not retryable, else setTimeout(resolve, jitterDelay)
Reject(i, e, k) ==
    /\ pc[i] = "awaiting"
    /\ fails' = [fails EXCEPT ![i] = Append(@, e)]
    /\ IF Exhausted(attempt[i], pol[i].maxAttempts)
       THEN /\ pc' = [pc EXCEPT ![i] = "thrown"]
            /\ result' = [result EXCEPT ![i] = Thrown(RetryError(attempt[i], e))]
            /\ UNCHANGED <<sleeps, bases>>
       ELSE IF ~Retryable(e)
       THEN /\ pc' = [pc EXCEPT ![i] = "thrown"]
            /\ result' = [result EXCEPT ![i] = Thrown(e)]
            /\ UNCHANGED <<sleeps, bases>>
       ELSE /\ pc' = [pc EXCEPT ![i] = "sleeping"]
            /\ sleeps' = [sleeps EXCEPT
                            ![i] = Append(@, JitterDelay(delay[i], pol[i].jitter, k))]
            /\ bases' = [bases EXCEPT ![i] = Append(@, delay[i])]
            /\ UNCHANGED result
    /\ UNCHANGED <<pol, attempt, delay, calls, okValue>>

\* the timer fires: delay = min(delay * factor, maxDelay); attempt++; the
\* loop invokes operation() again
Wake(i) ==
    /\ pc[i] = "sleeping"
    /\ delay' = [delay EXCEPT
                   ![i] = NextDelay(@, pol[i].factor, pol[i].maxDelay)]
    /\ attempt' = Bump(attempt, i)
    /\ calls' = [calls EXCEPT ![i] = @ + 1]
    /\ pc' = [pc EXCEPT ![i] = "awaiting"]
    /\ UNCHANGED <<pol, fails, sleeps, bases, okValue, result>>

\* ------------------------------------------- getCachedBlockhash (utils.ts)
NewCall ==
    [before |-> Null, beforeExpiry |-> 0, slot |-> -1,
     seen |-> Null, seenExpiry |-> 0, fetchOps |-> 0, fetchCalls |-> 0,
     fetchFails |-> 0, fetched |-> Null]

CacheInit ==
    /\ cachedBlockhash = Null
    /\ blockhashExpirySlot = 0
    /\ cpc = [c \in Invocations |-> "idle"]
    /\ ret = [c \in Invocations |-> NoResult]
    /\ call = [c \in Invocations |-> NewCall]
    /\ reply = [c \in Invocations |-> Null]
    /\ height = 0
    /\ issued = {}
    /\ rpcFailures = 0
    /\ completed = 0
    /\ log = <<>>

\* connection.getLatestBlockhash() answered at height h: the hash of the
\* block at h, valid for BlockhashValidity more blocks
LatestBlockhash(h) ==
    [blockhash |-> h, lastValidBlockHeight |-> h + BlockhashValidity]

RPCErrorPassThrough(e) == e

\* new RPCError(`Failed to get blockhash: ${error.message}`)
RPCError(e) ==
    [name |-> "RPCError",
     msg |-> <<"Failed", "to", "get", "blockhash:">> \o e.msg,
     status |-> 0,
     attempts |-> 0]

NeedsRefreshAlways(cached, currentSlot, expirySlot) == TRUE

NeedsRefreshLate(cached, currentSlot, expirySlot) ==
    cached = Null \/ currentSlot > expirySlot

\* if (!cachedBlockhash || currentSlot >= blockhashExpirySlot)
NeedsRefresh(cached, currentSlot, expirySlot) ==
    cached = Null \/ currentSlot >= expirySlot

StoreExpiryStale(latest, old) == old

\* blockhashExpirySlot = latestBlockhash.lastValidBlockHeight
StoreExpiry(latest, old) == latest.lastValidBlockHeight

LogEntry(k, kind, hash, cacheAfter, expiryAfter) ==
    [kind |-> kind, slot |-> k.slot, hash |-> hash,
     expiryBefore |-> IF k.before = Null THEN -1 ELSE k.beforeExpiry,
     hashBefore |-> IF k.before = Null THEN -1 ELSE k.before.blockhash,
     fetchCalls |-> k.fetchCalls, fetchFails |-> k.fetchFails,
     fetched |-> k.fetched,
     cacheHash |-> IF cacheAfter = Null THEN -1 ELSE cacheAfter.blockhash,
     cacheExpiry |-> IF cacheAfter = Null THEN -1 ELSE expiryAfter]

Record(keep, entry) ==
    IF ~keep THEN log
    ELSE IF Len(log) < 2 THEN Append(log, entry)
    ELSE <<log[2], entry>>

\* getCachedBlockhash(connection) up to its first await: withRetry(() =>
\* connection.getSlot()) is entered and getSlot is requested.
CallStart(c) ==
    /\ cpc[c] \in {"idle", "done", "failed"}
    /\ completed + Cardinality({d \in Invocations : cpc[d] \in {"slot", "fetch"}})
          < MaxCalls
    /\ cpc' = [cpc EXCEPT ![c] = "slot"]
    /\ ret' = [ret EXCEPT ![c] = NoResult]
    /\ call' = [call EXCEPT ![c] =
                  [NewCall EXCEPT !.before = cachedBlockhash,
                                  !.beforeExpiry = blockhashExpirySlot]]
    /\ Invoke(c, DefaultPolicy)
    /\ UNCHANGED <<cachedBlockhash, blockhashExpirySlot, reply, height, issued,
                   rpcFailures,
                   completed, log>>

\* the ledger answers the pending request of c: getSlot with its height,
\* getLatestBlockhash with the latest hash, or either with a failure
Serve(c, budget) ==
    /\ cpc[c] \in {"slot", "fetch"}
    /\ pc[c] = "awaiting"
    /\ reply[c] = Null
    /\ \/ /\ cpc[c] = "slot"
          /\ reply' = [reply EXCEPT ![c] = [ok |-> TRUE, value |-> [slot |-> height]]]
          /\ UNCHANGED <<issued, rpcFailures>>
       \/ /\ cpc[c] = "fetch"
          /\ reply' = [reply EXCEPT
                         ![c] = [ok |-> TRUE, value |-> LatestBlockhash(height)]]
          /\ issued' = issued \cup {LatestBlockhash(height)}
          /\ UNCHANGED rpcFailures
       \/ /\ rpcFailures < budget
          /\ \E e \in RpcErrors :
                reply' = [reply EXCEPT ![c] = [ok |-> FALSE, error |-> e]]
          /\ rpcFailures' = rpcFailures + 1
          /\ UNCHANGED issued
    /\ UNCHANGED <<retryVars, cachedBlockhash, blockhashExpirySlot, cpc, ret,
                   call, height, completed, log>>

\* the response reaches withRetry: return await operation(), or its catch
\* block
Deliver(c) ==
    /\ cpc[c] \in {"slot", "fetch"}
    /\ reply[c] # Null
    /\ reply' = [reply EXCEPT ![c] = Null]
    /\ IF reply[c].ok
       THEN /\ Resolve(c, reply[c].value)
            /\ call' = [call EXCEPT
                          ![c].fetched =
                              IF cpc[c] = "fetch" THEN reply[c].value ELSE @]
       ELSE /\ Reject(c, reply[c].error, 0)
            /\ call' = [call EXCEPT
                          ![c].fetchFails =
                              IF cpc[c] = "fetch" THEN @ + 1 ELSE @]
    /\ UNCHANGED <<cachedBlockhash, blockhashExpirySlot, cpc, ret, height,
                   issued, rpcFailures,
                   completed, log>>

\* the back-off timer of the withRetry of c fires and the request is repeated
WakeCall(c) ==
    /\ cpc[c] \in {"slot", "fetch"}
    /\ Wake(c)
    /\ call' = [call EXCEPT
                  ![c].fetchCalls = IF cpc[c] = "fetch" THEN @ + 1 ELSE @]
    /\ UNCHANGED <<cachedBlockhash, blockhashExpirySlot, cpc, ret, reply,
                   height, issued, rpcFailures,
                   completed, log>>

\* const currentSlot = await withRetry(...) resumes: the cache is checked;
\* either withRetry(() => connection.getLatestBlockhash()) is entered, or
\* the cached hash is returned
AfterSlot(c, keep) ==
    /\ cpc[c] = "slot"
    /\ pc[c] = "returned"
    /\ LET currentSlot == result[c].value.slot
           seen == [call EXCEPT ![c].slot = currentSlot,
                                ![c].seen = cachedBlockhash,
                                ![c].seenExpiry = blockhashExpirySlot]
       IN IF NeedsRefresh(cachedBlockhash, currentSlot, blockhashExpirySlot)
          THEN /\ cpc' = [cpc EXCEPT ![c] = "fetch"]
               /\ call' = [seen EXCEPT ![c].fetchOps = 1, ![c].fetchCalls = 1]
               /\ Invoke(c, DefaultPolicy)
               /\ UNCHANGED <<ret, completed, log>>
          ELSE /\ cpc' = [cpc EXCEPT ![c] = "done"]
               /\ call' = seen
               /\ ret' = [ret EXCEPT ![c] = Returned(cachedBlockhash.blockhash)]
               /\ completed' = completed + 1
               /\ log' = Record(keep, LogEntry(seen[c], "cache",
                                               cachedBlockhash.blockhash,
                                               cachedBlockhash, blockhashExpirySlot))
               /\ Discard(c)
    /\ UNCHANGED <<cachedBlockhash, blockhashExpirySlot, reply, height, issued,
                   rpcFailures>>

\* const latestBlockhash = await withRetry(...) resumes: both module
\* variables are assigned and the hash is returned
AfterFetch(c, keep) ==
    /\ cpc[c] = "fetch"
    /\ pc[c] = "returned"
    /\ LET latestBlockhash == result[c].value
       IN /\ cachedBlockhash' = latestBlockhash
          /\ blockhashExpirySlot' = StoreExpiry(latestBlockhash, blockhashExpirySlot)
          /\ ret' = [ret EXCEPT ![c] = Returned(cachedBlockhash'.blockhash)]
          /\ completed' = completed + 1
          /\ log' = Record(keep, LogEntry(call[c], "fetch",
                                          cachedBlockhash'.blockhash,
                                          cachedBlockhash', blockhashExpirySlot'))
    /\ cpc' = [cpc EXCEPT ![c] = "done"]
    /\ Discard(c)
    /\ UNCHANGED <<call, reply, height, issued, rpcFailures>>

CatchCallClearsCache(c, keep) ==
    /\ cpc[c] \in {"slot", "fetch"}
    /\ pc[c] = "thrown"
    /\ cpc' = [cpc EXCEPT ![c] = "failed"]
    /\ ret' = [ret EXCEPT ![c] = Thrown(RPCError(result[c].error))]
    /\ completed' = completed + 1
    /\ cachedBlockhash' = Null
    /\ blockhashExpirySlot' = 0
    /\ log' = Record(keep, LogEntry(call[c], "failed", -1, cachedBlockhash',
                                    blockhashExpirySlot'))
    /\ Discard(c)
    /\ UNCHANGED <<call, reply, height, issued, rpcFailures>>

\* catch (error): throw new RPCError(...)
CatchCall(c, keep) ==
    /\ cpc[c] \in {"slot", "fetch"}
    /\ pc[c] = "thrown"
    /\ cpc' = [cpc EXCEPT ![c] = "failed"]
    /\ ret' = [ret EXCEPT ![c] = Thrown(RPCError(result[c].error))]
    /\ completed' = completed + 1
    /\ log' = Record(keep, LogEntry(call[c], "failed", -1, cachedBlockhash,
                                    blockhashExpirySlot))
    /\ Discard(c)
    /\ UNCHANGED <<cachedBlockhash, blockhashExpirySlot, call, reply, height,
                   issued, rpcFailures>>

\* the ledger produces a block
Tick ==
    /\ height < MaxHeight
    /\ height' = height + 1
    /\ UNCHANGED <<retryVars, cachedBlockhash, blockhashExpirySlot, cpc, ret,
                   call, reply, issued, rpcFailures,
                   completed, log>>

\* ---------------------------------------------- trackTransaction (utils.ts)
MaxLatencySteps == 1
MaxTracked == 2
TrackFailureBudget == 5

\* await new Promise(resolve => setTimeout(resolve, 2000))
PollIntervalMs == 2000

\* timeoutMs: number = 60000
DefaultTimeoutMs == 60000

\* initialDelay = 500: one delay unit of a retry policy, in ms
DelayUnitMs == 500

\* how much later than asked a response or a timer may arrive, in ms
Latencies == {1000 * k : k \in 0..MaxLatencySteps}

Timeouts == {-1000, 0, 3000, 4000}

Signatures == {"5xS1"}

\* an optional field of an object: given, or undefined
Given(v) == [given |-> TRUE, v |-> v]
NoSignature == [given |-> FALSE, v |-> ""]
NoLogs == [given |-> FALSE, v |-> <<>>]

\* new TransactionError(message, signature?, logs?)
TransactionError(msg, signature, logs) ==
    [name |-> "TransactionError", msg |-> msg, status |-> 0, attempts |-> 0,
     signature |-> signature, logs |-> logs]

\* the err of a failed transaction, as the RPC node reports it
TxErr == [kind |-> "InstructionError"]

\* the response of connection.getSignatureStatus: value is null when the
\* node does not know the signature
SigStatus(err, level) ==
    [value |-> [err |-> err, confirmationStatus |-> level]]

AbsentStatus == [value |-> Null]

Statuses ==
    {AbsentStatus} \cup
    {SigStatus(e, l) : e \in {Null, TxErr},
                       l \in {"processed", "confirmed", "finalized"}}

\* the response of connection.getTransaction(signature, {commitment:
\* 'finalized'}): the record, or null
ConfirmedTx(sig) == [signature |-> sig, commitment |-> "finalized"]

\* new TransactionError(`Transaction failed: ${errorMsg}`, signature)
TrackTransactionError(err, sig) ==
    TransactionError(<<"Transaction", "failed:", err.kind>>, Given(sig), NoLogs)

\* new RPCError(`Failed to track transaction: ${error.message}`)
TrackRPCError(e) ==
    MkError("RPCError", <<"Failed", "to", "track", "transaction:">> \o e.msg, 0)

TrackTimeoutErrorNoT(T) ==
    MkError("RPCError", <<"Transaction", "tracking", "timed", "out">>, 0)

\* new RPCError(`Transaction tracking timed out after ${timeoutMs}ms`)
TrackTimeoutError(T) ==
    MkError("RPCError",
            <<"Transaction", "tracking", "timed", "out", "after",
              ToString(T), "ms">>, 0)

LoopConditionInclusive(el, T) == el <= T

\* while (Date.now() - startTime < timeoutMs)
LoopCondition(el, T) == el < T

IsFinalizedOrConfirmed(status) ==
    status.value.confirmationStatus \in {"finalized", "confirmed"}

\* if (status.value.confirmationStatus === 'finalized')
IsFinalized(status) == status.value.confirmationStatus = "finalized"

HasErrAfterLevel(status) ==
    status.value.err # Null /\ status.value.confirmationStatus # "finalized"

\* if (status.value.err)
HasErr(status) == status.value.err # Null

\* the back-off sleep of withRetry that has just ended, in ms
LastSleepMs(i) == (Last(sleeps[i]) * DelayUnitMs) \div SleepScale

TrackInit ==
    /\ tpc = "idle"
    /\ tsig = ""
    /\ timeoutMs = 0
    /\ elapsed = 0
    /\ tres = NoResult
    /\ polls = 0
    /\ pollSleeps = 0
    /\ txFetches = 0
    /\ lastStatus = Null
    /\ tracked = 0

\* the top of the while loop at elapsed time el, n polls made so far: the
\* next poll is requested, or the time-out is thrown
TrackLoop(el, T, n) ==
    IF LoopCondition(el, T)
    THEN /\ tpc' = "poll"
         /\ polls' = n + 1
         /\ Invoke("a", DefaultPolicy)
         /\ tres' = NoResult
    ELSE /\ tpc' = "thrown"
         /\ polls' = n
         /\ tres' = Thrown(TrackTimeoutError(T))
         /\ Discard("a")

\* trackTransaction(connection, sig, T) up to its first await
TrackEnter(sig, T) ==
    /\ tsig' = sig
    /\ timeoutMs' = T
    /\ elapsed' = 0
    /\ pollSleeps' = 0
    /\ txFetches' = 0
    /\ lastStatus' = Null
    /\ tracked' = tracked + 1
    /\ TrackLoop(0, T, 0)

TrackCall(sig, T) ==
    /\ tpc \in {"idle", "returned", "thrown"}
    /\ tracked < MaxTracked
    /\ TrackEnter(sig, T)

\* the node answers the pending getSignatureStatus or getTransaction
TrackResolve(v, d) ==
    /\ tpc \in {"poll", "getTx"}
    /\ tpc = "poll" => v \in Statuses
    /\ tpc = "getTx" => v \in {ConfirmedTx(tsig), Null}
    /\ Resolve("a", v)
    /\ elapsed' = elapsed + d
    /\ UNCHANGED <<tpc, tsig, timeoutMs, tres, polls, pollSleeps, txFetches,
                   lastStatus, tracked, rpcFailures>>

\* the pending request fails
TrackReject(e, d, budget) ==
    /\ tpc \in {"poll", "getTx"}
    /\ rpcFailures < budget
    /\ rpcFailures' = rpcFailures + 1
    /\ Reject("a", e, 0)
    /\ elapsed' = elapsed + d
    /\ UNCHANGED <<tpc, tsig, timeoutMs, tres, polls, pollSleeps, txFetches,
                   lastStatus, tracked>>

\* the back-off timer of withRetry fires and the request is repeated
TrackWake(d) ==
    /\ tpc \in {"poll", "getTx"}
    /\ Wake("a")
    /\ elapsed' = elapsed + LastSleepMs("a") + d
    /\ UNCHANGED <<tpc, tsig, timeoutMs, tres, polls, pollSleeps, txFetches,
                   lastStatus, tracked, rpcFailures>>

\* const status = await withRetry(...) resumes
AfterStatus ==
    /\ tpc = "poll"
    /\ pc["a"] = "returned"
    /\ LET status == result["a"].value
       IN /\ lastStatus' = status
          /\ IF status.value # Null /\ HasErr(status)
             THEN /\ tpc' = "thrown"
                  /\ tres' = Thrown(TrackTransactionError(status.value.err, tsig))
                  /\ Discard("a")
                  /\ UNCHANGED <<pollSleeps, txFetches>>
             ELSE IF status.value # Null /\ IsFinalized(status)
             THEN /\ tpc' = "getTx"
                  /\ txFetches' = txFetches + 1
                  /\ Invoke("a", DefaultPolicy)
                  /\ UNCHANGED <<tres, pollSleeps>>
             ELSE /\ tpc' = "sleeping"
                  /\ pollSleeps' = pollSleeps + 1
                  /\ Discard("a")
                  /\ UNCHANGED <<tres, txFetches>>
    /\ UNCHANGED <<tsig, timeoutMs, elapsed, polls, tracked, rpcFailures>>

\* const confirmedTx = await withRetry(...) resumes: return confirmedTx
AfterGetTx ==
    /\ tpc = "getTx"
    /\ pc["a"] = "returned"
    /\ tpc' = "returned"
    /\ tres' = Returned(result["a"].value)
    /\ Discard("a")
    /\ UNCHANGED <<tsig, timeoutMs, elapsed, polls, pollSleeps, txFetches,
                   lastStatus, tracked, rpcFailures>>

\* catch (error): withRetry threw; the error is not a TransactionError
TrackCatch ==
    /\ tpc \in {"poll", "getTx"}
    /\ pc["a"] = "thrown"
    /\ tpc' = "thrown"
    /\ tres' = Thrown(TrackRPCError(result["a"].error))
    /\ Discard("a")
    /\ UNCHANGED <<tsig, timeoutMs, elapsed, polls, pollSleeps, txFetches,
                   lastStatus, tracked, rpcFailures>>

\* the 2000 ms timer fires, d ms late: the loop condition is evaluated
PollTimer(d) ==
    /\ tpc = "sleeping"
    /\ elapsed' = elapsed + PollIntervalMs + d
    /\ TrackLoop(elapsed', timeoutMs, polls)
    /\ UNCHANGED <<tsig, timeoutMs, pollSleeps, txFetches, lastStatus,
                   tracked, rpcFailures>>

\* Date.now() advances while a request of the call, or the back-off sleep
\* of its withRetry, is pending
MaxClockSteps == 5

TimePasses ==
    /\ tpc \in {"poll", "getTx"}
    /\ pc["a"] \in {"awaiting", "sleeping"}
    /\ elapsed < 1000 * MaxClockSteps
    /\ elapsed' = elapsed + 1000
    /\ UNCHANGED <<retryVars, tpc, tsig, timeoutMs, tres, polls, pollSleeps,
                   txFetches, lastStatus, tracked, rpcFailures>>

\* the cache state and the ledger, apart from the failure count
cacheRest ==
    <<cachedBlockhash, blockhashExpirySlot, cpc, ret, call, reply, height,
      issued, completed, log>>

\* ------------------------------------------ pumpFunBuy / pumpFunSell (swap.ts)
SwapFailureBudget == 5

\* LAMPORTS_PER_SOL of @solana/web3.js
LAMPORTS_PER_SOL == 1000000000

\* a JavaScript number: a fraction num/den, or Infinity / NaN
Num(n, d) == [fin |-> TRUE, num |-> n, den |-> d]
NonFinite == [fin |-> FALSE, num |-> 0, den |-> 1]

\* Math.floor(a / b) for a >= 0
FloorDiv(a, b) == IF b = 0 THEN NonFinite ELSE Num(a \div b, 1)

RECURSIVE GCD(_, _)
GCD(a, b) == IF b = 0 THEN a ELSE GCD(b, a % b)

\* the number n / d for n >= 0, d >= 0, in lowest terms: a division by zero
\* gives Infinity or NaN
Rat(n, d) ==
    IF d = 0 THEN NonFinite ELSE Num(n \div GCD(n, d), d \div GCD(n, d))

\* x < y for finite x, y
RatLess(x, y) == x.num * y.den < y.num * x.den

\* new ValidationError(message)
ValidationError(msg) == MkError("ValidationError", msg, 0)

\* new APIError(message, statusCode)
APIError(msg, code) ==
    [name |-> "APIError", msg |-> msg, status |-> 0, attempts |-> 0,
     statusCode |-> code]

\* the strings new PublicKey(s) accepts, and those bs58.decode and
\* Keypair.fromSecretKey accept
ValidPublicKeys == {"So1Mint"}
DecodableKeys == {"goodKey"}

\* isValidPublicKey(publicKeyString)
IsValidPublicKey(s) == s \in ValidPublicKeys

DEFAULT_CONFIG_TrackOff == [trackTx |-> FALSE]

\* const DEFAULT_CONFIG: SwapConfig = { ..., trackTx: true }
DEFAULT_CONFIG == [trackTx |-> TRUE]

\* a SwapConfig: the keys the caller gave, and the value of trackTx if given
Configs ==
    {[given |-> {}, trackTx |-> FALSE],
     [given |-> {"trackTx"}, trackTx |-> TRUE],
     [given |-> {"trackTx"}, trackTx |-> FALSE]}

FinalConfigIgnoreCaller(config) == DEFAULT_CONFIG

\* const finalConfig = { ...DEFAULT_CONFIG, ...config }
FinalConfig(config) ==
    [trackTx |-> IF "trackTx" \in config.given
                 THEN config.trackTx
                 ELSE DEFAULT_CONFIG.trackTx]

Ops == {"pumpFunBuy", "pumpFunSell"}

IsExecutionAlways(mode) == TRUE

\* if (transactionMode === TransactionMode.Execution)
IsExecution(mode) == mode = "Execution"

\* else if (transactionMode === TransactionMode.Simulation)
IsSimulation(mode) == mode = "Simulation"

\* the arguments of a call: slippage in percent, the amount amount / per in
\* SOL or in tokens. Every combination of the validated parameters with every
\* mode, and every combination of mode, priority fee and config with
\* keys that pass the validation.
Arguments ==
    [op : Ops,
     mode : {"Execution", "Simulation", "Other"},
     key : {"", "goodKey"},
     mint : {"", "notAKey", "So1Mint"},
     amount : {-1, 0, 1},
     per : {1},
     fee : {0},
     slippage : {-1, 0, 100, 101},
     config : {[given |-> {}, trackTx |-> FALSE]}]
    \cup
    [op : Ops,
     mode : {"Execution", "Simulation", "Other"},
     key : {"notBase58", "goodKey"},
     mint : {"So1Mint"},
     amount : {1},
     per : {1},
     fee : {-1, 0, 1},
     slippage : {0},
     config : Configs]

\* the pool state getCoinData answers with
Coins ==
    {[virtual_sol_reserves |-> 1, virtual_token_reserves |-> 2],
     [virtual_sol_reserves |-> 0, virtual_token_reserves |-> 0]}

\* what connection.simulateTransaction resolves with
SimResults ==
    {[value |-> [err |-> Null, logs |-> Given(<<"log1", "log2">>)]],
     [value |-> [err |-> TxErr, logs |-> Given(<<"log1">>)]],
     [value |-> [err |-> TxErr, logs |-> NoLogs]]}

AccountInfo == [data |-> "tokenAccount"]

SwapErrors == {ETooMany, ENotFound}

\* what getSignatureStatus answers while a buy or sell is confirming
SwapStatuses ==
    {AbsentStatus, SigStatus(Null, "finalized"), SigStatus(TxErr, "confirmed")}

\* the failures of one call strike one of its retried operations
OneFaultyOperation == rpcFailures = Len(fails["a"])

Kinds ==
    {"getCoinData", "getAccountInfo", "getSlot", "getLatestBlockhash",
     "simulateTransaction", "sendAndConfirmTransaction",
     "getSignatureStatus", "getTransaction"}

NoNet == [k \in Kinds |-> 0]

NoLocals ==
    [coinData |-> Null, tokenAccountInfo |-> Null, expectedOutput |-> NonFinite,
     transaction |-> Null, signature |-> ""]

ValidationNoSlippage(a) ==
    IF a.key = ""
    THEN ValidationError(<<"Private", "key", "is", "required">>)
    ELSE IF a.mint = "" \/ ~IsValidPublicKey(a.mint)
    THEN ValidationError(<<"Invalid", "token", "mint", "address">>)
    ELSE IF a.amount <= 0
    THEN ValidationError(<<IF a.op = "pumpFunBuy" THEN "SOL" ELSE "Token",
                           "amount", "must", "be", "greater", "than", "0">>)
    ELSE Null

\* the parameter validation at the head of pumpFunBuy / pumpFunSell: the
\* error of the first check that fails, or null
Validation(a) ==
    IF a.key = ""
    THEN ValidationError(<<"Private", "key", "is", "required">>)
    ELSE IF a.mint = "" \/ ~IsValidPublicKey(a.mint)
    THEN ValidationError(<<"Invalid", "token", "mint", "address">>)
    ELSE IF a.amount <= 0
    THEN ValidationError(<<IF a.op = "pumpFunBuy" THEN "SOL" ELSE "Token",
                           "amount", "must", "be", "greater", "than", "0">>)
    ELSE IF a.slippage < 0 \/ a.slippage > 100
    THEN ValidationError(<<"Slippage", "must", "be", "between", "0", "and", "1">>)
    ELSE Null

\* getCoinData's catch: RetryError and APIError pass, the rest is wrapped
CoinDataError(e) ==
    IF e.name \in {"RetryError", "APIError"}
    THEN e
    ELSE APIError(<<"Error", "fetching", "coin", "data:">> \o e.msg, 0)

\* sendAndConfirmTransactionWrapper's catch
SubmitError(e) ==
    TransactionError(<<"Transaction", "failed:">> \o e.msg, NoSignature,
                     Given(<<>>))

SwapErrorPassAll(op, e) == e

\* the catch of pumpFunBuy / pumpFunSell
SwapError(op, e) ==
    IF e.name \in {"ValidationError", "TransactionError"}
    THEN e
    ELSE TransactionError(<<"Error", "in", op, ":">> \o e.msg, NoSignature,
                          NoLogs)

SimulationErrorNoLogs(value) ==
    TransactionError(<<"Simulation", "failed:", value.err.kind>>, NoSignature,
                     Given(<<>>))

\* new TransactionError(`Simulation failed: ${err}`, undefined, logs || [])
SimulationError(value) ==
    TransactionError(<<"Simulation", "failed:", value.err.kind>>, NoSignature,
                     Given(value.logs.v))

\* solIn / tokenBalance, the amount the caller gave
Amount(a) == Num(a.amount, a.per)

\* Math.floor(solInLamports * virtual_token_reserves / virtual_sol_reserves)
TokenOut(solIn, coin) ==
    FloorDiv(solIn.num * LAMPORTS_PER_SOL * coin.virtual_token_reserves,
             solIn.den * coin.virtual_sol_reserves)

MaxSolCostNoSlippage(solIn, slippage) ==
    FloorDiv(solIn.num * LAMPORTS_PER_SOL, solIn.den)

\* Math.floor(solIn * (1 + slippageDecimal) * LAMPORTS_PER_SOL)
MaxSolCost(solIn, slippage) ==
    FloorDiv(solIn.num * (100 + slippage) * (LAMPORTS_PER_SOL \div 100),
             solIn.den)

MinSolOutputAddsSlippage(tokenBalance, slippage, coin) ==
    FloorDiv(tokenBalance.num * (100 + slippage) * coin.virtual_sol_reserves,
             100 * tokenBalance.den * coin.virtual_token_reserves)

\* Math.floor(tokenBalance * (1 - slippageDecimal) * virtual_sol_reserves
\*            / virtual_token_reserves)
MinSolOutput(tokenBalance, slippage, coin) ==
    FloorDiv(tokenBalance.num * (100 - slippage) * coin.virtual_sol_reserves,
             100 * tokenBalance.den * coin.virtual_token_reserves)

\* Math.floor(tokenBalance * virtual_sol_reserves / virtual_token_reserves)
ExpectedSolOutput(tokenBalance, coin) ==
    FloorDiv(tokenBalance.num * coin.virtual_sol_reserves,
             tokenBalance.den * coin.virtual_token_reserves)

ExpectedOutputOtherSnapshot(a, coin) ==
    LET other == [virtual_sol_reserves |-> 1, virtual_token_reserves |-> 1]
    IN IF a.op = "pumpFunBuy"
       THEN TokenOut(Amount(a), other)
       ELSE Num(ExpectedSolOutput(Amount(a), other).num, LAMPORTS_PER_SOL)

\* expectedOutput of the result object
ExpectedOutput(a, coin) ==
    IF a.op = "pumpFunBuy"
    THEN TokenOut(Amount(a), coin)
    ELSE LET out == ExpectedSolOutput(Amount(a), coin)
         IN IF out.fin THEN Num(out.num, LAMPORTS_PER_SOL) ELSE NonFinite

\* bufferFromUInt64(value) of a number returns a buffer
Encodable(x) == x.fin /\ x.den = 1 /\ x.num >= 0

\* the numbers the trade instruction carries after its discriminator
TradeData(a, coin) ==
    IF a.op = "pumpFunBuy"
    THEN <<TokenOut(Amount(a), coin), MaxSolCost(Amount(a), a.slippage)>>
    ELSE <<Amount(a), MinSolOutput(Amount(a), a.slippage, coin)>>

Ix(name, data) == [ix |-> name, data |-> data]

\* txBuilder.instructions
BuilderInstructions(a, coin, info) ==
    (IF info = Null THEN <<Ix("createAssociatedTokenAccount", <<>>)>> ELSE <<>>)
        \o <<Ix(a.op, TradeData(a, coin))>>

BuiltTransactionTradeFirst(a, coin, info) ==
    [instructions |->
         <<Ix("setComputeUnitLimit", <<>>)>>
             \o (IF a.fee > 0 THEN <<Ix("setComputeUnitPrice", <<>>)>> ELSE <<>>)
             \o <<Ix(a.op, TradeData(a, coin))>>
             \o (IF info = Null
                 THEN <<Ix("createAssociatedTokenAccount", <<>>)>>
                 ELSE <<>>),
     feePayer |-> a.key,
     recentBlockhash |-> -1]

\* the transaction createTransaction builds, before the blockhash is set
BuiltTransaction(a, coin, info) ==
    [instructions |->
         <<Ix("setComputeUnitLimit", <<>>)>>
             \o (IF a.fee > 0 THEN <<Ix("setComputeUnitPrice", <<>>)>> ELSE <<>>)
             \o BuilderInstructions(a, coin, info),
     feePayer |-> a.key,
     recentBlockhash |-> -1]

\* the value a successful call returns
Executed(a, l) ==
    [success |-> TRUE, signature |-> l.signature,
     expectedOutput |-> l.expectedOutput, inputAmount |-> Amount(a),
     outputToken |-> IF a.op = "pumpFunBuy" THEN a.mint ELSE "SOL"]

Simulated(a, l, sim) ==
    [success |-> TRUE, simulation |-> sim.value,
     expectedOutput |-> l.expectedOutput, inputAmount |-> Amount(a),
     logs |-> sim.value.logs]

SwapInit ==
    /\ spc = "idle"
    /\ args = [op |-> "pumpFunBuy", mode |-> "Execution", key |-> "",
               mint |-> "", amount |-> 0, per |-> 1, fee |-> 0,
               slippage |-> 0,
               config |-> [given |-> {}, trackTx |-> FALSE]]
    /\ loc = NoLocals
    /\ outcome = NoResult
    /\ net = NoNet
    /\ order = <<>>

\* one more request of kind k goes out
Hit(k) ==
    /\ net' = [net EXCEPT ![k] = @ + 1]
    /\ order' = IF order # <<>> /\ Last(order) = k THEN order ELSE Append(order, k)

\* the call throws e out of its try block: the catch decides what the
\* caller sees
SwapThrow(e) ==
    /\ spc' = "failed"
    /\ outcome' = Thrown(SwapError(args.op, e))

\* pumpFunBuy / pumpFunSell up to the first await: parameter validation,
\* then getCoinData(mintStr) and its first request
SwapEnter(a) ==
    /\ args' = a
    /\ loc' = NoLocals
    /\ IF Validation(a) # Null
       THEN /\ spc' = "failed"
            /\ outcome' = Thrown(Validation(a))
            /\ net' = NoNet
            /\ order' = <<>>
            /\ Discard("a")
       ELSE /\ spc' = "coin"
            /\ outcome' = NoResult
            /\ net' = [NoNet EXCEPT !["getCoinData"] = 1]
            /\ order' = <<"getCoinData">>
            /\ Invoke("a", DefaultPolicy)

SwapCall(a) ==
    /\ spc = "idle"
    /\ SwapEnter(a)

\* the request kind a position of the call waits for
KindOf(position) ==
    CASE position = "coin" -> "getCoinData"
      [] position = "account" -> "getAccountInfo"
      [] position = "submit" -> "sendAndConfirmTransaction"
      [] position = "simulate" -> "simulateTransaction"

\* what the pending request can resolve with
Responses(position) ==
    CASE position = "coin" -> {[status |-> 200, data |-> c] : c \in Coins}
      [] position = "account" -> {Null, AccountInfo}
      [] position = "submit" -> {[signature |-> g] : g \in Signatures}
      [] position = "simulate" -> SimResults
      [] OTHER -> {}

\* the pending request of the call is answered
SwapResolve(v) ==
    /\ spc \in {"coin", "account", "submit", "simulate"}
    /\ Resolve("a", v)
    /\ UNCHANGED <<swapVars, rpcFailures>>

\* the pending request of the call fails
SwapReject(e, budget) ==
    /\ spc \in {"coin", "account", "submit", "simulate"}
    /\ OneFaultyOperation
    /\ rpcFailures < budget
    /\ rpcFailures' = rpcFailures + 1
    /\ Reject("a", e, 0)
    /\ UNCHANGED swapVars

SwapWakeRebuilds ==
    /\ spc \in {"coin", "account", "submit", "simulate"}
    /\ Wake("a")
    /\ Hit(KindOf(spc))
    /\ loc' = IF spc = "submit"
              THEN [loc EXCEPT !.transaction.recentBlockhash = height + 1]
              ELSE loc
    /\ UNCHANGED <<spc, args, outcome, rpcFailures>>

\* the back-off timer of withRetry fires and the request is repeated
SwapWake ==
    /\ spc \in {"coin", "account", "submit", "simulate"}
    /\ Wake("a")
    /\ Hit(KindOf(spc))
    /\ UNCHANGED <<spc, args, loc, outcome, rpcFailures>>

\* withRetry threw in getCoinData, in the account lookup, in the submit
\* wrapper or in the simulation: the catch blocks on the way out
SwapCatch ==
    /\ spc \in {"coin", "account", "submit", "simulate"}
    /\ pc["a"] = "thrown"
    /\ LET e == result["a"].error
       IN SwapThrow(CASE spc = "coin" -> CoinDataError(e)
                      [] spc = "submit" -> SubmitError(e)
                      [] OTHER -> e)
    /\ Discard("a")
    /\ UNCHANGED <<args, loc, net, order, rpcFailures>>

\* const coinData = await getCoinData(mintStr) resumes: the key is decoded,
\* the token account address derived, and getAccountInfo requested
AfterCoinData ==
    /\ spc = "coin"
    /\ pc["a"] = "returned"
    /\ loc' = [loc EXCEPT !.coinData = result["a"].value.data]
    /\ IF args.key \notin DecodableKeys
       THEN /\ SwapThrow(ValidationError(<<"Invalid", "private", "key", "format:",
                                           "Non-base58", "character">>))
            /\ Discard("a")
            /\ UNCHANGED <<net, order>>
       ELSE /\ spc' = "account"
            /\ Invoke("a", DefaultPolicy)
            /\ Hit("getAccountInfo")
            /\ UNCHANGED outcome
    /\ UNCHANGED args

\* const tokenAccountInfo = await withRetry(...) resumes: the instructions
\* are put together and createTransaction runs up to the getSlot request of
\* getCachedBlockhash
AfterAccountInfo ==
    /\ spc = "account"
    /\ pc["a"] = "returned"
    /\ LET info == result["a"].value
           data == TradeData(args, loc.coinData)
       IN /\ loc' = [loc EXCEPT
                       !.tokenAccountInfo = info,
                       !.expectedOutput = ExpectedOutput(args, loc.coinData),
                       !.transaction = BuiltTransaction(args, loc.coinData, info)]
          /\ IF \E j \in 1..Len(data) : ~Encodable(data[j])
             THEN /\ SwapThrow(ValidationError(<<"Failed", "to", "convert", "value",
                                                 "to", "buffer:", "not", "an",
                                                 "integer">>))
                  /\ Discard("a")
                  /\ UNCHANGED <<net, order, cacheVars>>
             ELSE IF args.fee < 0
             THEN /\ SwapThrow(ValidationError(<<"Priority", "fee", "cannot", "be",
                                                 "negative">>))
                  /\ Discard("a")
                  /\ UNCHANGED <<net, order, cacheVars>>
             ELSE /\ spc' = "blockhash"
                  /\ CallStart("a")
                  /\ Hit("getSlot")
                  /\ UNCHANGED outcome
    /\ UNCHANGED args

\* the request kind a getCachedBlockhash call waits for
CacheKindOf(position) ==
    IF position = "slot" THEN "getSlot" ELSE "getLatestBlockhash"

\* getCachedBlockhash has returned or thrown: createTransaction returns the
\* transaction or rethrows the RPCError; then the mode is looked at
AfterBlockhash ==
    /\ spc = "blockhash"
    /\ cpc["a"] \in {"done", "failed"}
    /\ IF cpc["a"] = "failed"
       THEN /\ SwapThrow(ret["a"].error)
            /\ UNCHANGED <<retryVars, trackVars, loc, net, order>>
       ELSE /\ loc' = [loc EXCEPT !.transaction.recentBlockhash = ret["a"].value]
            /\ IF IsExecution(args.mode)
               THEN /\ spc' = "submit"
                    /\ Invoke("a", DefaultPolicy)
                    /\ Hit("sendAndConfirmTransaction")
                    /\ UNCHANGED outcome
               ELSE IF IsSimulation(args.mode)
               THEN /\ spc' = "simulate"
                    /\ Invoke("a", DefaultPolicy)
                    /\ Hit("simulateTransaction")
                    /\ UNCHANGED outcome
               ELSE /\ SwapThrow(ValidationError(<<"Invalid", "transaction",
                                                   "mode">>))
                    /\ UNCHANGED <<retryVars, net, order>>
            /\ UNCHANGED trackVars
    /\ UNCHANGED <<args, cacheVars>>

\* const signature = await sendAndConfirmTransactionWrapper(...) resumes:
\* trackTransaction(connection, signature) is entered if finalConfig.trackTx,
\* else the result is returned
AfterSubmit ==
    /\ spc = "submit"
    /\ pc["a"] = "returned"
    /\ LET signature == result["a"].value.signature
       IN /\ loc' = [loc EXCEPT !.signature = signature]
          /\ IF FinalConfig(args.config).trackTx
             THEN /\ spc' = "track"
                  /\ TrackEnter(signature, DefaultTimeoutMs)
                  /\ Hit("getSignatureStatus")
                  /\ UNCHANGED outcome
             ELSE /\ spc' = "done"
                  /\ outcome' = Returned(Executed(args, loc'))
                  /\ Discard("a")
                  /\ UNCHANGED <<trackVars, net, order>>
    /\ UNCHANGED <<args, cacheVars>>

\* await trackTransaction(connection, signature) resumes or throws
AfterTrack ==
    /\ spc = "track"
    /\ tpc \in {"returned", "thrown"}
    /\ IF tpc = "returned"
       THEN /\ spc' = "done"
            /\ outcome' = Returned(Executed(args, loc))
       ELSE SwapThrow(tres.error)
    /\ UNCHANGED <<retryVars, cacheVars, trackVars, args, loc, net, order>>

\* const simulatedResult = await withRetry(...) resumes
AfterSimulate ==
    /\ spc = "simulate"
    /\ pc["a"] = "returned"
    /\ LET simulatedResult == result["a"].value
       IN IF simulatedResult.value.err # Null
          THEN SwapThrow(SimulationError(simulatedResult.value))
          ELSE /\ spc' = "done"
               /\ outcome' = Returned(Simulated(args, loc, simulatedResult))
    /\ Discard("a")
    /\ UNCHANGED <<cacheVars, trackVars, args, loc, net, order>>

\* the caller makes another call when the one before has returned or thrown
SwapCallAgain(a) ==
    /\ spc \in {"done", "failed"}
    /\ SwapEnter(a)

\* executions with valid parameters, with and without a priority fee,
\* tracking off
ResubmitArguments ==
    {[op |-> o, mode |-> "Execution", key |-> "goodKey", mint |-> "So1Mint",
      amount |-> 1, per |-> 1, fee |-> f, slippage |-> 0,
      config |-> [given |-> {"trackTx"}, trackTx |-> FALSE]] :
        o \in Ops, f \in {0, 1}}

\* ------------------------------- getBuyPriceQuote / getSellPriceQuote (api.ts)
QuoteFailureBudget == 2

QuoteOps == {"getBuyPriceQuote", "getSellPriceQuote"}

\* a CoinData with the fields the quotes and the swaps read
CoinData(vsr, vtr, liquidity) ==
    [virtual_sol_reserves |-> vsr, virtual_token_reserves |-> vtr,
     liquidity_sol |-> liquidity, price_sol |-> Num(vsr, 1000)]

\* the pool states getCoinData answers a quote with: zero and positive
\* reserves and liquidity
QuoteCoins ==
    {CoinData(s, t, l) : s \in {0, 3, 1000}, t \in {0, 2, 100000}, l \in {0, 500}}

\* the amounts a quote is asked for: 1, 2, 1/2, 3/2 and 10000
QuoteAmounts == {<<1, 1>>, <<2, 1>>, <<1, 2>>, <<3, 2>>, <<10000, 1>>}

QuoteArguments ==
    {[op |-> o, mode |-> "Other", key |-> "", mint |-> "So1Mint",
      amount |-> q[1], per |-> q[2], fee |-> 0, slippage |-> 0,
      config |-> [given |-> {}, trackTx |-> FALSE]] :
        o \in QuoteOps, q \in QuoteAmounts}

\* x / liquidity_sol
PriceImpact(x, coin) ==
    IF x.fin THEN Rat(x.num, x.den * coin.liquidity_sol) ELSE NonFinite

BuyQuoteUnfloored(solAmount, coin) ==
    [inputAmount |-> solAmount,
     expectedOutputAmount |->
         Rat(solAmount.num * coin.virtual_token_reserves,
             solAmount.den * coin.virtual_sol_reserves),
     price |-> coin.price_sol,
     priceImpact |-> PriceImpact(solAmount, coin)]

\* the object getBuyPriceQuote returns
BuyQuote(solAmount, coin) ==
    [inputAmount |-> solAmount,
     expectedOutputAmount |->
         FloorDiv(solAmount.num * coin.virtual_token_reserves,
                  solAmount.den * coin.virtual_sol_reserves),
     price |-> coin.price_sol,
     priceImpact |-> PriceImpact(solAmount, coin)]

SellQuoteFloored(tokenAmount, coin) ==
    LET solAmount == FloorDiv(tokenAmount.num * coin.virtual_sol_reserves,
                              tokenAmount.den * coin.virtual_token_reserves)
    IN [inputAmount |-> tokenAmount,
        expectedOutputAmount |-> solAmount,
        price |-> coin.price_sol,
        priceImpact |-> PriceImpact(solAmount, coin)]

SellQuoteImpactOfInput(tokenAmount, coin) ==
    LET solAmount == Rat(tokenAmount.num * coin.virtual_sol_reserves,
                         tokenAmount.den * coin.virtual_token_reserves)
    IN [inputAmount |-> tokenAmount,
        expectedOutputAmount |-> solAmount,
        price |-> coin.price_sol,
        priceImpact |-> PriceImpact(tokenAmount, coin)]

\* the object getSellPriceQuote returns
SellQuote(tokenAmount, coin) ==
    LET solAmount == Rat(tokenAmount.num * coin.virtual_sol_reserves,
                         tokenAmount.den * coin.virtual_token_reserves)
    IN [inputAmount |-> tokenAmount,
        expectedOutputAmount |-> solAmount,
        price |-> coin.price_sol,
        priceImpact |-> PriceImpact(solAmount, coin)]

\* the catch of getBuyPriceQuote / getSellPriceQuote
QuoteError(op, e) ==
    IF e.name \in {"RetryError", "APIError"}
    THEN e
    ELSE APIError(<<"Error", "calculating",
                    IF op = "getBuyPriceQuote" THEN "buy" ELSE "sell",
                    "price", "quote:">> \o e.msg, 0)

\* getBuyPriceQuote / getSellPriceQuote up to the first await: getCoinData
\* and its first request
QuoteEnter(a) ==
    /\ args' = a
    /\ loc' = NoLocals
    /\ spc' = "quote"
    /\ outcome' = NoResult
    /\ net' = [NoNet EXCEPT !["getCoinData"] = 1]
    /\ order' = <<"getCoinData">>
    /\ Invoke("a", DefaultPolicy)

QuoteCall(a) ==
    /\ spc = "idle"
    /\ QuoteEnter(a)

\* the request of getCoinData is answered
QuoteResolve(v) ==
    /\ spc = "quote"
    /\ Resolve("a", v)
    /\ UNCHANGED <<swapVars, rpcFailures>>

\* the request of getCoinData fails
QuoteReject(e, budget) ==
    /\ spc = "quote"
    /\ rpcFailures < budget
    /\ rpcFailures' = rpcFailures + 1
    /\ Reject("a", e, 0)
    /\ UNCHANGED swapVars

\* the back-off timer of withRetry fires and the request is repeated
QuoteWake ==
    /\ spc = "quote"
    /\ Wake("a")
    /\ Hit("getCoinData")
    /\ UNCHANGED <<spc, args, loc, outcome, rpcFailures>>

\* withRetry threw in getCoinData: its catch, then the catch of the quote
QuoteCatch ==
    /\ spc = "quote"
    /\ pc["a"] = "thrown"
    /\ spc' = "failed"
    /\ outcome' = Thrown(QuoteError(args.op, CoinDataError(result["a"].error)))
    /\ Discard("a")
    /\ UNCHANGED <<args, loc, net, order, rpcFailures>>

\* const coinData = await getCoinData(mintStr) resumes: the quote is
\* computed and returned
AfterQuoteCoin ==
    /\ spc = "quote"
    /\ pc["a"] = "returned"
    /\ LET coinData == result["a"].value.data
       IN /\ loc' = [loc EXCEPT !.coinData = coinData]
          /\ outcome' = Returned(IF args.op = "getBuyPriceQuote"
                                 THEN BuyQuote(Amount(args), coinData)
                                 ELSE SellQuote(Amount(args), coinData))
    /\ spc' = "done"
    /\ Discard("a")
    /\ UNCHANGED <<args, net, order, rpcFailures>>

\* the pool states of the buys and sells whose amounts are looked at
NumCoins == {CoinData(s, t, 500) : s \in {0, 1, 3}, t \in {0, 1, 2}}

\* their arguments: buys of 1, 1/2 and 1/3 SOL, sells of 1 to 4 tokens and of
\* half a token, at slippage 0, 0.25, 0.5 and 1; tracking is off
NumArguments ==
    {[op |-> o[1], mode |-> m, key |-> "goodKey", mint |-> "So1Mint",
      amount |-> o[2], per |-> o[3], fee |-> 0, slippage |-> s,
      config |-> [given |-> {"trackTx"}, trackTx |-> FALSE]] :
        o \in {<<"pumpFunBuy", 1, 1>>, <<"pumpFunBuy", 1, 2>>,
               <<"pumpFunBuy", 1, 3>>, <<"pumpFunSell", 1, 1>>,
               <<"pumpFunSell", 2, 1>>, <<"pumpFunSell", 3, 1>>,
               <<"pumpFunSell", 4, 1>>, <<"pumpFunSell", 1, 2>>},
        m \in {"Execution", "Simulation"},
        s \in {0, 25, 50, 100}}

\* what the pending request of such a call, or of a quote, resolves with
NumResponses(position) ==
    CASE position = "coin" -> {[status |-> 200, data |-> c] : c \in NumCoins}
      [] position = "quote" -> {[status |-> 200, data |-> c] : c \in QuoteCoins}
      [] OTHER -> Responses(position)

\* ------------------------------------------------------ getCoinData (api.ts)
\* the statuses axios.get resolves with, and the failures it rejects with
HttpStatuses == {200, 201, 404, 429, 500, 503}

HttpBodies == {CoinData(1000, 100000, 500), CoinData(0, 0, 0)}

HttpErrors == {EHangUp, ENotFound}

\* the operation getCoinData hands to withRetry, after axios.get resolved
\* with resp: if (resp.status !== 200) throw new APIError(...); return resp
OperationOutcome(resp) ==
    IF resp.status # 200
    THEN Thrown(APIError(<<"Failed", "to", "retrieve", "coin", "data:",
                           ToString(resp.status)>>, resp.status))
    ELSE Returned(resp)

cacheNoReply ==
    <<cachedBlockhash, blockhashExpirySlot, cpc, ret, call, height, issued,
      rpcFailures, completed, log>>

\* getCoinData(mintStr) up to the first await: withRetry is entered and
\* axios.get is called
CoinDataCall(mintStr) ==
    /\ spc = "idle"
    /\ args' = [op |-> "getCoinData", mode |-> "Other", key |-> "",
                mint |-> mintStr, amount |-> 0, per |-> 1, fee |-> 0,
                slippage |-> 0, config |-> [given |-> {}, trackTx |-> FALSE]]
    /\ loc' = NoLocals
    /\ spc' = "getCoinData"
    /\ outcome' = NoResult
    /\ net' = [NoNet EXCEPT !["getCoinData"] = 1]
    /\ order' = <<"getCoinData">>
    /\ Invoke("a", DefaultPolicy)
    /\ UNCHANGED <<cacheVars, trackVars>>

\* axios.get resolves with a response, or rejects
CoinDataRespond(r) ==
    /\ spc = "getCoinData"
    /\ pc["a"] = "awaiting"
    /\ reply["a"] = Null
    /\ reply' = [reply EXCEPT !["a"] = r]
    /\ UNCHANGED <<retryVars, cacheNoReply, trackVars, swapVars>>

\* the operation resumes with the response and returns or throws; withRetry
\* returns, throws or sleeps
CoinDataDeliver ==
    /\ spc = "getCoinData"
    /\ reply["a"] # Null
    /\ reply' = [reply EXCEPT !["a"] = Null]
    /\ IF ~reply["a"].ok
       THEN Reject("a", reply["a"].error, 0)
       ELSE LET out == OperationOutcome(reply["a"].value)
            IN IF out.kind = "error"
               THEN Reject("a", out.error, 0)
               ELSE Resolve("a", out.value)
    /\ UNCHANGED <<cacheNoReply, trackVars, swapVars>>

\* the back-off timer of withRetry fires and axios.get is called again
CoinDataWake ==
    /\ spc = "getCoinData"
    /\ Wake("a")
    /\ Hit("getCoinData")
    /\ UNCHANGED <<cacheVars, trackVars, spc, args, loc, outcome>>

\* withRetry threw: the catch of getCoinData
CoinDataCatch ==
    /\ spc = "getCoinData"
    /\ pc["a"] = "thrown"
    /\ spc' = "failed"
    /\ outcome' = Thrown(CoinDataError(result["a"].error))
    /\ Discard("a")
    /\ UNCHANGED <<cacheVars, trackVars, args, loc, net, order>>

\* return response.data
CoinDataReturn ==
    /\ spc = "getCoinData"
    /\ pc["a"] = "returned"
    /\ spc' = "done"
    /\ outcome' = Returned(result["a"].value.data)
    /\ Discard("a")
    /\ UNCHANGED <<cacheVars, trackVars, args, loc, net, order>>

\* -------------------------------------------------- bufferFromUInt64 (utils.ts)
\* A BigInt: a sign and a magnitude, the magnitude a sequence of 16-bit
\* limbs, lowest first, without leading zero limbs (0n: the empty sequence).
BigIntOf(neg, mag) == [ok |-> TRUE, neg |-> neg /\ mag # <<>>, mag |-> mag]

\* BigInt(value) throws a SyntaxError or a RangeError
BigIntThrows(msg) == [ok |-> FALSE, msg |-> msg]

\* mag * m + c for m <= 16 and c < 65536
RECURSIVE MulAdd(_, _, _)
MulAdd(mag, m, c) ==
    IF mag = <<>>
    THEN IF c = 0 THEN <<>> ELSE <<c>>
    ELSE LET t == Head(mag) * m + c
         IN <<t % 65536>> \o MulAdd(Tail(mag), m, t \div 65536)

\* a > b on magnitudes
RECURSIVE MagGreater(_, _)
MagGreater(a, b) ==
    IF Len(a) # Len(b) THEN Len(a) > Len(b)
    ELSE IF a = <<>> THEN FALSE
    ELSE IF Last(a) # Last(b) THEN Last(a) > Last(b)
    ELSE MagGreater(SubSeq(a, 1, Len(a) - 1), SubSeq(b, 1, Len(b) - 1))

\* Number.MAX_SAFE_INTEGER = 2^53 - 1; Number.MIN_SAFE_INTEGER is its negative
MAX_SAFE_INTEGER == <<65535, 65535, 65535, 31>>

IsDigit(c) == \E d \in 0..9 : DigitTok(d) = c

DigitOf(c) == CHOOSE d \in 0..9 : DigitTok(d) = c

IsHexDigit(c) == IsDigit(c) \/ c \in {"a", "f"}

HexDigitOf(c) == IF c = "a" THEN 10 ELSE IF c = "f" THEN 15 ELSE DigitOf(c)

\* the value of a sequence of decimal digits
RECURSIVE DecimalMag(_, _)
DecimalMag(acc, cs) ==
    IF cs = <<>> THEN acc
    ELSE DecimalMag(MulAdd(acc, 10, DigitOf(Head(cs))), Tail(cs))

\* the value of a sequence of hexadecimal digits
RECURSIVE HexMag(_, _)
HexMag(acc, cs) ==
    IF cs = <<>> THEN acc
    ELSE HexMag(MulAdd(acc, 16, HexDigitOf(Head(cs))), Tail(cs))

\* the string without its leading and trailing white space
RECURSIVE Trim(_)
Trim(cs) ==
    IF cs = <<>> THEN cs
    ELSE IF Head(cs) = " " THEN Trim(Tail(cs))
    ELSE IF Last(cs) = " " THEN Trim(SubSeq(cs, 1, Len(cs) - 1))
    ELSE cs

AllOf(cs, Test(_)) == \A j \in 1..Len(cs) : Test(cs[j])

\* BigInt(string): white space is trimmed, the empty string is 0n, then an
\* optionally signed sequence of decimal digits or an unsigned 0x literal
\* (prefixes 0o and 0b are not among the inputs); else a SyntaxError
StringToBigInt(cs) ==
    LET t == Trim(cs)
    IN IF t = <<>> THEN BigIntOf(FALSE, <<>>)
       ELSE IF AllOf(t, IsDigit) THEN BigIntOf(FALSE, DecimalMag(<<>>, t))
       ELSE IF Len(t) > 1 /\ Head(t) \in {"-", "+"} /\ AllOf(Tail(t), IsDigit)
       THEN BigIntOf(Head(t) = "-", DecimalMag(<<>>, Tail(t)))
       ELSE IF Len(t) > 2 /\ t[1] = "0" /\ t[2] = "x"
               /\ AllOf(SubSeq(t, 3, Len(t)), IsHexDigit)
       THEN BigIntOf(FALSE, HexMag(<<>>, SubSeq(t, 3, Len(t))))
       ELSE BigIntThrows(<<"Cannot", "convert", "to", "a", "BigInt">>)

\* a JavaScript number: an integer with sign and magnitude, or a value that
\* is no integer (a fraction, NaN, Infinity)
IntegerNumber(neg, mag) ==
    [type |-> "number", integer |-> TRUE, neg |-> neg, mag |-> mag]

OtherNumber(what) ==
    [type |-> "number", integer |-> FALSE, neg |-> FALSE, mag |-> <<>>,
     what |-> what]

StringValue(cs) == [type |-> "string", chars |-> cs]

\* BigInt(number): a RangeError unless the number is an integer
NumberToBigInt(x) ==
    IF x.integer THEN BigIntOf(x.neg, x.mag)
    ELSE BigIntThrows(<<"cannot", "be", "converted", "to", "a", "BigInt",
                        "because", "it", "is", "not", "an", "integer">>)

\* BigInt(value)
ToBigInt(value) ==
    IF value.type = "number" THEN NumberToBigInt(value)
    ELSE StringToBigInt(value.chars)

\* value > Number.MAX_SAFE_INTEGER || value < Number.MIN_SAFE_INTEGER
ExceedsSafeInteger(x) == MagGreater(x.mag, MAX_SAFE_INTEGER)

\* buffer.writeBigUInt64LE(bigIntValue) on Buffer.alloc(8): eight bytes,
\* lowest first
WriteBigUInt64LE(mag) ==
    [j \in 1..8 |->
        LET k == (j + 1) \div 2
            limb == IF k <= Len(mag) THEN mag[k] ELSE 0
        IN IF j % 2 = 1 THEN limb % 256 ELSE limb \div 256]

\* a magnitude without its leading zero limbs
RECURSIVE Normalize(_)
Normalize(mag) ==
    IF mag # <<>> /\ Last(mag) = 0
    THEN Normalize(SubSeq(mag, 1, Len(mag) - 1))
    ELSE mag

\* buffer.readBigUInt64LE()
ReadBigUInt64LE(buffer) ==
    Normalize([k \in 1..4 |-> buffer[2 * k - 1] + 256 * buffer[2 * k]])

\* bufferFromUInt64(value): what it returns or throws
BufferFromUInt64(value) ==
    LET bigIntValue == ToBigInt(value)
    IN IF ~bigIntValue.ok
       THEN Thrown(ValidationError(<<"Failed", "to", "convert", "value", "to",
                                     "buffer:">> \o bigIntValue.msg))
       ELSE IF value.type = "number" /\ ExceedsSafeInteger(value)
       THEN Thrown(ValidationError(<<"Number", "exceeds", "safe", "integer",
                                     "limits">>))
       ELSE IF bigIntValue.neg \/ Len(bigIntValue.mag) > 4
       THEN Thrown(ValidationError(<<"Failed", "to", "convert", "value", "to",
                                     "buffer:", "out", "of", "range">>))
       ELSE Returned(WriteBigUInt64LE(bigIntValue.mag))

\* the characters of the short strings, and the strings of up to three
\* characters over them
BufferChars == {"0", "1", "9", "-", " ", "x", "a", "."}

ShortStrings ==
    {<<>>} \cup {<<c>> : c \in BufferChars}
        \cup {<<c, d>> : c, d \in BufferChars}
        \cup {<<c, d, e>> : c, d, e \in BufferChars}

\* longer strings: 65535, 65536, 4294967296, 2^53, 2^64 - 1, 2^64,
\* 12345678901234567890, -18446744073709551615, 0xffff, not-a-number
LongStrings ==
    { <<"6", "5", "5", "3", "5">>,
      <<"6", "5", "5", "3", "6">>,
      <<"4", "2", "9", "4", "9", "6", "7", "2", "9", "6">>,
      <<"9", "0", "0", "7", "1", "9", "9", "2", "5", "4", "7", "4", "0", "9",
        "9", "2">>,
      <<"1", "8", "4", "4", "6", "7", "4", "4", "0", "7", "3", "7", "0", "9",
        "5", "5", "1", "6", "1", "5">>,
      <<"1", "8", "4", "4", "6", "7", "4", "4", "0", "7", "3", "7", "0", "9",
        "5", "5", "1", "6", "1", "6">>,
      <<"1", "2", "3", "4", "5", "6", "7", "8", "9", "0", "1", "2", "3", "4",
        "5", "6", "7", "8", "9", "0">>,
      <<"-", "1", "8", "4", "4", "6", "7", "4", "4", "0", "7", "3", "7", "0",
        "9", "5", "5", "1", "6", "1", "5">>,
      <<"0", "x", "f", "f", "f", "f">>,
      <<"n", "o", "t", "-", "a", "-", "n", "u", "m", "b", "e", "r">> }

\* numbers: 0, 1, 42, 255, 256, 65535, 65536, 2^32, 2^53 - 1, 2^53, 2^64,
\* their negatives, 1.5, NaN and Infinity
BufferNumbers ==
    {IntegerNumber(n, m) :
        n \in BOOLEAN,
        m \in {<<>>, <<1>>, <<42>>, <<255>>, <<256>>, <<65535>>, <<0, 1>>,
               <<0, 0, 1>>, MAX_SAFE_INTEGER, <<0, 0, 0, 32>>,
               <<0, 0, 0, 0, 1>>}}
        \cup {OtherNumber(w) : w \in {"1.5", "NaN", "Infinity"}}

BufferInputs ==
    BufferNumbers \cup {StringValue(cs) : cs \in ShortStrings \cup LongStrings}

\* one call bufferFromUInt64(value)
BufferCall(value) ==
    /\ spc = "idle"
    /\ args' = [op |-> "bufferFromUInt64", value |-> value]
    /\ outcome' = BufferFromUInt64(value)
    /\ spc' = IF outcome'.kind = "value" THEN "done" ELSE "failed"
    /\ UNCHANGED <<retryVars, cacheVars, trackVars, loc, net, order>>

\* ------------------------------------------------------- specifications
\* One withRetry invocation, every policy and every failure.
Init == RetryInit /\ CacheInit /\ TrackInit /\ SwapInit

Next ==
    \/ \E p \in Policies : Start("a", p) /\ UNCHANGED <<cacheVars, trackVars, swapVars>>
    \/ \E v \in Values : Resolve("a", v) /\ UNCHANGED <<cacheVars, trackVars, swapVars>>
    \/ \E e \in Errors, k \in 0..(JitterSteps - 1) :
          Reject("a", e, k)
             /\ UNCHANGED <<cacheVars, trackVars, swapVars>>
    \/ Wake("a") /\ UNCHANGED <<cacheVars, trackVars, swapVars>>

Spec == Init /\ [][Next]_vars

\* Concurrent withRetry invocations.
ConcNext ==
    \E i \in Invocations :
        \/ \E p \in ConcPolicies : Start(i, p) /\ UNCHANGED <<cacheVars, trackVars, swapVars>>
        \/ \E v \in ConcValues : Resolve(i, v) /\ UNCHANGED <<cacheVars, trackVars, swapVars>>
        \/ \E e \in ConcErrors, k \in 0..(JitterSteps - 1) :
              Reject(i, e, k)
                 /\ UNCHANGED <<cacheVars, trackVars, swapVars>>
        \/ Wake(i) /\ UNCHANGED <<cacheVars, trackVars, swapVars>>

SpecConc == Init /\ [][ConcNext]_vars

\* Concurrent getCachedBlockhash calls against one ledger.
CacheNext ==
    \/ \E c \in Invocations :
        \/ CallStart(c) /\ UNCHANGED <<trackVars, swapVars>>
        \/ Serve(c, ConcFailureBudget) /\ UNCHANGED <<trackVars, swapVars>>
        \/ Deliver(c) /\ UNCHANGED <<trackVars, swapVars>>
        \/ WakeCall(c) /\ UNCHANGED <<trackVars, swapVars>>
        \/ AfterSlot(c, FALSE) /\ UNCHANGED <<trackVars, swapVars>>
        \/ AfterFetch(c, FALSE) /\ UNCHANGED <<trackVars, swapVars>>
        \/ CatchCall(c, FALSE) /\ UNCHANGED <<trackVars, swapVars>>
    \/ Tick /\ UNCHANGED <<trackVars, swapVars>>

SpecCache == Init /\ [][CacheNext]_vars

\* getCachedBlockhash calls made one after the other: every call is made
\* when the one before it has returned or thrown.
SeqNext ==
    \/ \E c \in {"a"} :
        \/ CallStart(c) /\ UNCHANGED <<trackVars, swapVars>>
        \/ Serve(c, SeqFailureBudget) /\ UNCHANGED <<trackVars, swapVars>>
        \/ Deliver(c) /\ UNCHANGED <<trackVars, swapVars>>
        \/ WakeCall(c) /\ UNCHANGED <<trackVars, swapVars>>
        \/ AfterSlot(c, TRUE) /\ UNCHANGED <<trackVars, swapVars>>
        \/ AfterFetch(c, TRUE) /\ UNCHANGED <<trackVars, swapVars>>
        \/ CatchCall(c, TRUE) /\ UNCHANGED <<trackVars, swapVars>>
    \/ Tick /\ UNCHANGED <<trackVars, swapVars>>

SpecSeq == Init /\ [][SeqNext]_vars

\* trackTransaction calls made one after the other, with every time-out of
\* Timeouts.
TrackNext ==
    \/ \E g \in Signatures, T \in Timeouts :
          TrackCall(g, T) /\ UNCHANGED <<cacheVars, swapVars>>
    \/ \E v \in Statuses \cup {ConfirmedTx(tsig), Null}, d \in Latencies :
          TrackResolve(v, d) /\ UNCHANGED <<cacheRest, swapVars>>
    \/ \E e \in SwapErrors, d \in Latencies :
          TrackReject(e, d, TrackFailureBudget)
             /\ UNCHANGED <<cacheRest, swapVars>>
    \/ \E d \in Latencies : TrackWake(d) /\ UNCHANGED <<cacheRest, swapVars>>
    \/ AfterStatus /\ UNCHANGED <<cacheRest, swapVars>>
    \/ AfterGetTx /\ UNCHANGED <<cacheRest, swapVars>>
    \/ TrackCatch /\ UNCHANGED <<cacheRest, swapVars>>
    \/ \E d \in Latencies : PollTimer(d) /\ UNCHANGED <<cacheRest, swapVars>>

SpecTrack == Init /\ [][TrackNext]_vars

\* The same, with every response and every timer arriving in the end: a step
\* of a call in progress that stays possible is taken.
TrackProgress ==
    \/ \E v \in Statuses \cup {ConfirmedTx(tsig), Null}, d \in Latencies :
          TrackResolve(v, d) /\ UNCHANGED <<cacheRest, swapVars>>
    \/ \E e \in SwapErrors, d \in Latencies :
          TrackReject(e, d, TrackFailureBudget)
             /\ UNCHANGED <<cacheRest, swapVars>>
    \/ \E d \in Latencies : TrackWake(d) /\ UNCHANGED <<cacheRest, swapVars>>
    \/ AfterStatus /\ UNCHANGED <<cacheRest, swapVars>>
    \/ AfterGetTx /\ UNCHANGED <<cacheRest, swapVars>>
    \/ TrackCatch /\ UNCHANGED <<cacheRest, swapVars>>
    \/ \E d \in Latencies : PollTimer(d) /\ UNCHANGED <<cacheRest, swapVars>>

SpecTrackFair == Init /\ [][TrackNext]_vars /\ WF_vars(TrackProgress)

\* trackTransaction calls with the clock running while a request is pending.
\* The timers fire and the continuations of the call run; nothing makes the
\* RPC node answer.
TrackClockNext ==
    \/ TrackNext
    \/ TimePasses /\ UNCHANGED <<cacheRest, swapVars>>

TrackLocal ==
    \/ \E d \in Latencies : TrackWake(d) /\ UNCHANGED <<cacheRest, swapVars>>
    \/ AfterStatus /\ UNCHANGED <<cacheRest, swapVars>>
    \/ AfterGetTx /\ UNCHANGED <<cacheRest, swapVars>>
    \/ TrackCatch /\ UNCHANGED <<cacheRest, swapVars>>
    \/ \E d \in Latencies : PollTimer(d) /\ UNCHANGED <<cacheRest, swapVars>>
    \/ TimePasses /\ UNCHANGED <<cacheRest, swapVars>>

SpecTrackClock == Init /\ [][TrackClockNext]_vars /\ WF_vars(TrackLocal)

\* One pumpFunBuy / pumpFunSell call, against the blockhash cache of the
\* module and one ledger. The failures of a call strike one of its retried
\* operations; a request of trackTransaction fails fatally or not at all,
\* and the confirmation is slow only in a call whose requests never failed.
SwapNext ==
    \/ \E a \in Arguments : SwapCall(a) /\ UNCHANGED <<cacheVars, trackVars>>
    \/ \E v \in Responses(spc) :
          SwapResolve(v) /\ UNCHANGED <<cacheRest, trackVars>>
    \/ \E e \in SwapErrors :
          SwapReject(e, SwapFailureBudget) /\ UNCHANGED <<cacheRest, trackVars>>
    \/ SwapWake /\ UNCHANGED <<cacheRest, trackVars>>
    \/ SwapCatch /\ UNCHANGED <<cacheRest, trackVars>>
    \/ AfterCoinData /\ UNCHANGED <<cacheVars, trackVars>>
    \/ AfterAccountInfo /\ UNCHANGED trackVars
    \/ /\ Serve("a", SwapFailureBudget)
       /\ rpcFailures' # rpcFailures => OneFaultyOperation
       /\ UNCHANGED <<trackVars, swapVars>>
    \/ Deliver("a") /\ UNCHANGED <<trackVars, swapVars>>
    \/ /\ WakeCall("a")
       /\ Hit(CacheKindOf(cpc["a"]))
       /\ UNCHANGED <<trackVars, spc, args, loc, outcome>>
    \/ /\ AfterSlot("a", FALSE)
       /\ IF cpc'["a"] = "fetch"
          THEN Hit("getLatestBlockhash")
          ELSE UNCHANGED <<net, order>>
       /\ UNCHANGED <<trackVars, spc, args, loc, outcome>>
    \/ AfterFetch("a", FALSE) /\ UNCHANGED <<trackVars, swapVars>>
    \/ CatchCall("a", FALSE) /\ UNCHANGED <<trackVars, swapVars>>
    \/ AfterBlockhash
    \/ AfterSubmit
    \/ \E v \in SwapStatuses \cup {ConfirmedTx(tsig)} :
          /\ spc = "track"
          /\ v = AbsentStatus => rpcFailures = 0
          /\ TrackResolve(v, 0)
          /\ UNCHANGED <<cacheRest, swapVars>>
    \/ \E e \in {ENotFound} :
          /\ spc = "track"
          /\ OneFaultyOperation
          /\ TrackReject(e, 0, SwapFailureBudget)
          /\ UNCHANGED <<cacheRest, swapVars>>
    \/ /\ spc = "track"
       /\ AfterStatus
       /\ IF tpc' = "getTx" THEN Hit("getTransaction") ELSE UNCHANGED <<net, order>>
       /\ UNCHANGED <<cacheRest, spc, args, loc, outcome>>
    \/ spc = "track" /\ AfterGetTx /\ UNCHANGED <<cacheRest, swapVars>>
    \/ spc = "track" /\ TrackCatch /\ UNCHANGED <<cacheRest, swapVars>>
    \/ /\ spc = "track"
       /\ PollTimer(0)
       /\ IF tpc' = "poll"
          THEN Hit("getSignatureStatus")
          ELSE UNCHANGED <<net, order>>
       /\ UNCHANGED <<cacheRest, spc, args, loc, outcome>>
    \/ AfterTrack
    \/ AfterSimulate

SpecSwap == Init /\ [][SwapNext]_vars

\* One call of a quote, or one buy or sell with tracking off, over the
\* amounts, slippages and pool states whose arithmetic is looked at. The
\* requests of getCoinData may fail; the others are answered.
QuoteNext ==
    \/ \E a \in QuoteArguments : QuoteCall(a) /\ UNCHANGED <<cacheVars, trackVars>>
    \/ \E v \in NumResponses(spc) :
          QuoteResolve(v) /\ UNCHANGED <<cacheRest, trackVars>>
    \/ \E e \in SwapErrors :
          QuoteReject(e, QuoteFailureBudget) /\ UNCHANGED <<cacheRest, trackVars>>
    \/ QuoteWake /\ UNCHANGED <<cacheRest, trackVars>>
    \/ QuoteCatch /\ UNCHANGED <<cacheRest, trackVars>>
    \/ AfterQuoteCoin /\ UNCHANGED <<cacheRest, trackVars>>
    \/ \E a \in NumArguments : SwapCall(a) /\ UNCHANGED <<cacheVars, trackVars>>
    \/ \E v \in NumResponses(spc) :
          SwapResolve(v) /\ UNCHANGED <<cacheRest, trackVars>>
    \/ \E e \in SwapErrors :
          /\ spc = "coin"
          /\ SwapReject(e, QuoteFailureBudget)
          /\ UNCHANGED <<cacheRest, trackVars>>
    \/ SwapWake /\ UNCHANGED <<cacheRest, trackVars>>
    \/ SwapCatch /\ UNCHANGED <<cacheRest, trackVars>>
    \/ AfterCoinData /\ UNCHANGED <<cacheVars, trackVars>>
    \/ AfterAccountInfo /\ UNCHANGED trackVars
    \/ Serve("a", 0) /\ UNCHANGED <<trackVars, swapVars>>
    \/ Deliver("a") /\ UNCHANGED <<trackVars, swapVars>>
    \/ /\ AfterSlot("a", FALSE)
       /\ IF cpc'["a"] = "fetch"
          THEN Hit("getLatestBlockhash")
          ELSE UNCHANGED <<net, order>>
       /\ UNCHANGED <<trackVars, spc, args, loc, outcome>>
    \/ AfterFetch("a", FALSE) /\ UNCHANGED <<trackVars, swapVars>>
    \/ AfterBlockhash
    \/ AfterSubmit
    \/ AfterSimulate

SpecQuote == Init /\ [][QuoteNext]_vars

\* One getCoinData call against an HTTP endpoint that answers every request
\* with any of the statuses, or not at all.
CoinDataNext ==
    \/ \E m \in ValidPublicKeys : CoinDataCall(m)
    \/ \E s \in HttpStatuses, b \in HttpBodies :
          CoinDataRespond([ok |-> TRUE,
                           value |-> [status |-> s,
                                      data |-> IF s = 200 THEN b ELSE Null]])
    \/ \E e \in HttpErrors : CoinDataRespond([ok |-> FALSE, error |-> e])
    \/ CoinDataDeliver
    \/ CoinDataWake
    \/ CoinDataCatch
    \/ CoinDataReturn

SpecCoinData == Init /\ [][CoinDataNext]_vars

\* One bufferFromUInt64 call with every input.
BufferNext == \E value \in BufferInputs : BufferCall(value)

SpecBuffer == Init /\ [][BufferNext]_vars

\* Concurrent getCachedBlockhash calls against a ledger that answers every
\* getLatestBlockhash request at the height at which it was issued, so that
\* the expiry heights it hands out do not decrease in the order of the
\* requests; the responses travel back at their own pace. A response or a
\* timer is handled when the continuations of the one before have run.
NoFetchUnserved ==
    \A c \in Invocations :
        ~(cpc[c] = "fetch" /\ pc[c] = "awaiting" /\ reply[c] = Null)

NoContinuationPending == \A c \in Invocations : pc[c] \notin {"returned", "thrown"}

OrderedNext ==
    \/ \E c \in Invocations :
        \/ CallStart(c) /\ UNCHANGED <<trackVars, swapVars>>
        \/ Serve(c, ConcFailureBudget) /\ UNCHANGED <<trackVars, swapVars>>
        \/ NoContinuationPending /\ Deliver(c) /\ UNCHANGED <<trackVars, swapVars>>
        \/ NoContinuationPending /\ WakeCall(c) /\ UNCHANGED <<trackVars, swapVars>>
        \/ AfterSlot(c, FALSE) /\ UNCHANGED <<trackVars, swapVars>>
        \/ AfterFetch(c, FALSE) /\ UNCHANGED <<trackVars, swapVars>>
        \/ CatchCall(c, FALSE) /\ UNCHANGED <<trackVars, swapVars>>
    \/ NoFetchUnserved /\ Tick /\ UNCHANGED <<trackVars, swapVars>>

SpecCacheOrdered == Init /\ [][OrderedNext]_vars

\* Executions made one after the other against one blockhash cache and a
\* ledger that moves on. The submission fails and is retried; the other
\* requests are answered.
ResubmitNext ==
    \/ \E a \in ResubmitArguments :
          SwapCall(a) /\ UNCHANGED <<cacheVars, trackVars>>
    \/ \E a \in ResubmitArguments :
          SwapCallAgain(a) /\ UNCHANGED <<cacheVars, trackVars>>
    \/ \E v \in Responses(spc) :
          SwapResolve(v) /\ UNCHANGED <<cacheRest, trackVars>>
    \/ \E e \in SwapErrors :
          /\ spc = "submit"
          /\ SwapReject(e, SwapFailureBudget)
          /\ UNCHANGED <<cacheRest, trackVars>>
    \/ SwapWake /\ UNCHANGED <<cacheRest, trackVars>>
    \/ SwapCatch /\ UNCHANGED <<cacheRest, trackVars>>
    \/ AfterCoinData /\ UNCHANGED <<cacheVars, trackVars>>
    \/ AfterAccountInfo /\ UNCHANGED trackVars
    \/ Serve("a", 0) /\ UNCHANGED <<trackVars, swapVars>>
    \/ Deliver("a") /\ UNCHANGED <<trackVars, swapVars>>
    \/ /\ AfterSlot("a", FALSE)
       /\ IF cpc'["a"] = "fetch"
          THEN Hit("getLatestBlockhash")
          ELSE UNCHANGED <<net, order>>
       /\ UNCHANGED <<trackVars, spc, args, loc, outcome>>
    \/ AfterFetch("a", FALSE) /\ UNCHANGED <<trackVars, swapVars>>
    \/ AfterBlockhash
    \/ AfterSubmit
    \/ Tick /\ UNCHANGED <<trackVars, swapVars>>

SpecResubmit == Init /\ [][ResubmitNext]_vars

\* ------------------------------------------------- claims on withRetry
\* the failures withRetry goes on after, and those whose error string
\* matches a transient signature
RetryableErrors == {e \in Errors : Retryable(e)}

SignatureErrors == {e \in Errors : ShouldRetry(e)}

AllRetryable(fs) == \A j \in 1..Len(fs) : fs[j] \in RetryableErrors

IsInfix(sub, s) ==
    \E k \in 0..(Len(s) - Len(sub)) : \A j \in 1..Len(sub) : s[k + j] = sub[j]

\* C1: an operation that fails its first k < maxAttempts invocations with a
\* retryable error and succeeds on invocation k+1 makes withRetry return that
\* value after exactly k+1 invocations: while fewer than maxAttempts failures
\* have happened and all were retryable, withRetry has not thrown and the
\* operation is invoked again; once the operation resolves, withRetry returns
\* the value it resolved with.
C1_RetryThenSucceed ==
    \A i \in Invocations :
        (pc[i] # "idle" /\ AllRetryable(fails[i])
            /\ Len(fails[i]) < pol[i].maxAttempts) =>
            /\ pc[i] # "thrown"
            /\ pc[i] = "awaiting" => calls[i] = Len(fails[i]) + 1
            /\ pc[i] = "sleeping" => calls[i] = Len(fails[i])
            /\ pc[i] = "returned" =>
                /\ result[i] = Returned(okValue[i])
                /\ okValue[i] \in Values
                /\ calls[i] = Len(fails[i]) + 1

C1_Witness ==
    \E i \in Invocations :
        /\ pc[i] = "returned"
        /\ pol[i].maxAttempts = 3
        /\ Len(fails[i]) = 2
        /\ AllRetryable(fails[i])
        /\ calls[i] = 3
        /\ result[i] = Returned([v |-> "v2"])

\* C2: an operation that fails every invocation with a retryable error is
\* invoked exactly maxAttempts times, then withRetry throws a RetryError whose
\* attempts field is maxAttempts and whose message contains the message of the
\* last failure.
C2_ExhaustionRaisesRetryError ==
    \A i \in Invocations :
        (pc[i] # "idle" /\ AllRetryable(fails[i])) =>
            /\ calls[i] <= pol[i].maxAttempts
            /\ Len(fails[i]) < pol[i].maxAttempts => pc[i] # "thrown"
            /\ Len(fails[i]) >= pol[i].maxAttempts =>
                /\ pc[i] = "thrown"
                /\ calls[i] = pol[i].maxAttempts
                /\ Len(fails[i]) = pol[i].maxAttempts
                /\ result[i].kind = "error"
                /\ result[i].error.name = "RetryError"
                /\ result[i].error.attempts = pol[i].maxAttempts
                /\ IsInfix(Last(fails[i]).msg, result[i].error.msg)

C2_Witness ==
    \E i \in Invocations :
        /\ pc[i] = "thrown"
        /\ pol[i].maxAttempts = 3
        /\ Len(fails[i]) = 3
        /\ AllRetryable(fails[i])
        /\ fails[i][3] = EHangUp
        /\ fails[i][2] = ETooMany
        /\ result[i].error.attempts = 3

\* C3 (as claimed): for every maxAttempts >= 1, an operation whose first
\* invocation fails with a non-retryable error is invoked exactly once and
\* withRetry throws that same error, not a RetryError.
C3_FatalFirstFailurePropagates ==
    \A i \in Invocations :
        (Len(fails[i]) >= 1 /\ fails[i][1] \notin RetryableErrors) =>
            /\ pc[i] = "thrown"
            /\ calls[i] = 1
            /\ result[i] = Thrown(fails[i][1])

\* C4 (as claimed): withRetry throws a RetryError only when the last failure
\* was retryable; a fatal failure at any attempt 1..maxAttempts propagates as
\* the original error.
C4_RetryErrorOnlyAfterRetryable ==
    \A i \in Invocations :
        (pc[i] = "thrown" /\ result[i].error.name = "RetryError") =>
            Last(fails[i]) \in RetryableErrors

\* the status rule of the classification, written out
StatusSaysRetry(status) == status = 429 \/ status = 408 \/ status >= 500

\* failure j of invocation i was followed by another invocation (or by the
\* sleep that precedes it)
Retried(i, j) == ~(j = Len(fails[i]) /\ pc[i] = "thrown")

\* C5 (as claimed): with attempts remaining, a failure that carries a status
\* code is retried iff the code is 429, 408 or >= 500, whatever its message.
C5_StatusAloneDecides ==
    \A i \in Invocations :
        \A j \in 1..Len(fails[i]) :
            (j < pol[i].maxAttempts /\ fails[i][j].status # 0) =>
                (Retried(i, j) <=> StatusSaysRetry(fails[i][j].status))

\* C5 (amended): with attempts remaining, a failure is retried iff its error
\* string matches a transient signature or its status code is 429, 408 or
\* >= 500; otherwise it is thrown unchanged.
C5_StatusOrSignatureDecides ==
    \A i \in Invocations :
        \A j \in 1..Len(fails[i]) :
            j < pol[i].maxAttempts =>
                /\ Retried(i, j) <=>
                      (StatusSaysRetry(fails[i][j].status)
                          \/ fails[i][j] \in SignatureErrors)
                /\ ~Retried(i, j) => result[i] = Thrown(fails[i][j])

C5_Witness ==
    \E i \in Invocations :
        /\ Len(fails[i]) = 2
        /\ pol[i].maxAttempts = 3
        /\ fails[i][1] = ETimeout404
        /\ fails[i][2] = EExpired408
        /\ pc[i] = "sleeping"

\* C6: for a policy with initialDelay <= maxDelay, the base delay of the j-th
\* sleep is min(initialDelay * factor^(j-1), maxDelay); without jitter the
\* sleep is the base delay, with jitter it lies in [0.5*base, 1.5*base); the
\* next base delay is computed from the base delay, never from the sleep.
BaseDelay(p, j) == Min(p.initialDelay * Pow(p.factor, j - 1), p.maxDelay)

C6_BackoffSchedule ==
    \A i \in Invocations :
        (pc[i] # "idle" /\ pol[i].initialDelay <= pol[i].maxDelay) =>
            /\ delay[i] = BaseDelay(pol[i], attempt[i])
            /\ Len(bases[i]) = Len(sleeps[i])
            /\ \A j \in 1..Len(sleeps[i]) :
                /\ bases[i][j] = BaseDelay(pol[i], j)
                /\ IF pol[i].jitter
                   THEN /\ JitterSteps * bases[i][j] <= sleeps[i][j]
                        /\ sleeps[i][j] < 3 * JitterSteps * bases[i][j]
                   ELSE sleeps[i][j] = SleepScale * bases[i][j]

\* two jittered sleeps with different random factors, the second one capped
C6_Witness ==
    \E i \in Invocations :
        /\ pol[i].jitter
        /\ pol[i].initialDelay = 2
        /\ pol[i].factor = 2
        /\ pol[i].maxDelay = 3
        /\ Len(sleeps[i]) = 2
        /\ bases[i] = <<2, 3>>
        /\ sleeps[i][1] * bases[i][2] # sleeps[i][2] * bases[i][1]
        /\ pc[i] = "awaiting"
        /\ delay[i] = 3

C6_WitnessNoJitter ==
    \E i \in Invocations :
        /\ ~pol[i].jitter
        /\ Len(sleeps[i]) = 2
        /\ bases[i] = <<1, 2>>
        /\ sleeps[i] = <<SleepScale, 2 * SleepScale>>

\* C7: concurrent withRetry invocations do not disturb each other: in every
\* interleaving, the attempt counter, the number of invocations of the
\* operation, the delay and the outcome of an invocation are what its own
\* policy, its own failures and its own sleeps make them.
RECURSIVE SoloDelay(_, _)
SoloDelay(p, n) ==
    IF n <= 1 THEN p.initialDelay
    ELSE Min(SoloDelay(p, n - 1) * p.factor, p.maxDelay)

C7_Reentrant ==
    \A i \in Invocations :
        pc[i] # "idle" =>
            LET n == Len(sleeps[i]) + (IF pc[i] = "sleeping" THEN 0 ELSE 1)
            IN /\ attempt[i] = n
               /\ calls[i] = n
               /\ delay[i] = SoloDelay(pol[i], n)
               /\ Len(fails[i]) = IF pc[i] \in {"awaiting", "returned"}
                                  THEN n - 1 ELSE n
               /\ pc[i] = "returned" => result[i] = Returned(okValue[i])
               /\ pc[i] = "thrown" =>
                     result[i] = IF n >= pol[i].maxAttempts
                                 THEN Thrown(RetryError(n, Last(fails[i])))
                                 ELSE Thrown(Last(fails[i]))

\* the two invocations overlap: b fails and sleeps while a, started first, is
\* in its second attempt, and a still is when b has thrown
C7_Witness ==
    /\ pc["a"] = "awaiting"
    /\ attempt["a"] = 2
    /\ pc["b"] = "thrown"
    /\ attempt["b"] = 3
    /\ pol["a"] # pol["b"]
    /\ result["b"].error.name = "RetryError"

\* -------------------------------------------- claims on getCachedBlockhash
\* C8: calls made one after the other, starting from an empty cache: the
\* first call fetches; a call that reads a height below the cached expiry
\* returns the hash the cache held (the hash the previous calls left there)
\* without any getLatestBlockhash request; a call that reads a height >= the
\* cached expiry makes one fetch (one request, plus one per failed request
\* that withRetry repeats), stores the response and returns its hash.
C8_SequentialReads ==
    \A n \in 1..Len(log) :
        LET e == log[n]
            fresh == e.expiryBefore # -1 /\ e.slot < e.expiryBefore
        IN /\ completed = 1 => e.expiryBefore = -1
           /\ n > 1 =>
                /\ e.expiryBefore = log[n - 1].cacheExpiry
                /\ e.hashBefore = log[n - 1].cacheHash
           /\ e.kind = "cache" <=> (fresh /\ e.slot # -1)
           /\ e.kind = "cache" =>
                /\ e.fetchCalls = 0
                /\ e.hash = e.hashBefore
                /\ e.cacheHash = e.hashBefore
                /\ e.cacheExpiry = e.expiryBefore
           /\ e.kind = "fetch" =>
                /\ e.fetchCalls = 1 + e.fetchFails
                /\ e.fetched \in issued
                /\ e.hash = e.fetched.blockhash
                /\ e.cacheHash = e.fetched.blockhash
                /\ e.cacheExpiry = e.fetched.lastValidBlockHeight
           /\ (n > 1 /\ log[n - 1].kind = "fetch" /\ e.kind = "cache") =>
                /\ e.hash = log[n - 1].hash
                /\ log[n - 1].fetchCalls + e.fetchCalls
                      = 1 + log[n - 1].fetchFails

\* three calls: the first fetched hash 0 into the empty cache, the second
\* returned it from the cache, the third read a height at its expiry and
\* fetched another hash
C8_Witness ==
    /\ completed = 3
    /\ Len(log) = 2
    /\ log[1].kind = "cache"
    /\ log[1].hash = 0
    /\ log[1].fetchCalls = 0
    /\ log[2].kind = "fetch"
    /\ log[2].fetchCalls = 1
    /\ log[2].slot >= log[1].cacheExpiry
    /\ log[2].hash # log[1].hash
    /\ cachedBlockhash.blockhash = log[2].hash

\* the first two calls: one fetch, the same hash twice
C8_WitnessFirstTwo ==
    /\ completed = 2
    /\ Len(log) = 2
    /\ log[1].kind = "fetch"
    /\ log[1].expiryBefore = -1
    /\ log[1].fetchCalls = 1
    /\ log[2].kind = "cache"
    /\ log[2].hash = log[1].hash

\* C9: in every interleaving of concurrent calls, at every suspension point
\* the cache is empty or holds a hash and the expiry of one and the same
\* getLatestBlockhash response, and the pair a call decides on, and the hash
\* it returns, are a hash and the expiry of one and the same response.
C9_NoTornReads ==
    /\ cachedBlockhash # Null =>
        /\ cachedBlockhash \in issued
        /\ blockhashExpirySlot = cachedBlockhash.lastValidBlockHeight
    /\ \A c \in Invocations :
        /\ call[c].seen # Null =>
            /\ call[c].seen \in issued
            /\ call[c].seenExpiry = call[c].seen.lastValidBlockHeight
        /\ (cpc[c] = "done" /\ call[c].fetchOps = 0) =>
            /\ call[c].seen # Null
            /\ ret[c] = Returned(call[c].seen.blockhash)
            /\ call[c].slot < call[c].seen.lastValidBlockHeight
        /\ (cpc[c] = "done" /\ call[c].fetchOps # 0) =>
            /\ call[c].fetched \in issued
            /\ ret[c] = Returned(call[c].fetched.blockhash)

\* b has refreshed the cache while the refresh of a, which saw an expired
\* pair, is still in flight with an older response
C9_Witness ==
    /\ cpc["a"] = "fetch"
    /\ call["a"].seen # Null
    /\ reply["a"] # Null
    /\ reply["a"].ok
    /\ cpc["b"] = "done"
    /\ call["b"].fetchOps = 1
    /\ cachedBlockhash = call["b"].fetched
    /\ cachedBlockhash # call["a"].seen
    /\ reply["a"].value # cachedBlockhash

\* the expiry the ledger gave out with a hash
ExpiriesOf(hash) == {r.lastValidBlockHeight : r \in {q \in issued : q.blockhash = hash}}

\* C10: a call that returns a hash without fetching read a height strictly
\* below the expiry of that hash; every other call returns the hash of the
\* response it fetched itself, or fails.
C10_NeverStale ==
    \A c \in Invocations :
        /\ (cpc[c] = "done" /\ call[c].fetchOps = 0) =>
            /\ ret[c].kind = "value"
            /\ ExpiriesOf(ret[c].value) # {}
            /\ \A x \in ExpiriesOf(ret[c].value) : call[c].slot < x
        /\ (cpc[c] = "done" /\ call[c].fetchOps # 0) =>
            /\ call[c].fetchOps = 1
            /\ call[c].fetched \in issued
            /\ ret[c] = Returned(call[c].fetched.blockhash)
        /\ cpc[c] = "failed" => ret[c].kind = "error"

\* a hash served from the cache at the last height before its expiry, while
\* the other call is in flight
C10_Witness ==
    \E c, d \in Invocations :
        /\ c # d
        /\ cpc[c] = "done"
        /\ call[c].fetchOps = 0
        /\ call[c].slot + 1 = call[c].seenExpiry
        /\ height >= call[c].seenExpiry
        /\ cpc[d] \in {"slot", "fetch"}

\* --------------------------------- claims on getCachedBlockhash failures
\* C11: when withRetry has given up on getSlot or on getLatestBlockhash
\* (attempts exhausted, or a fatal failure), the getCachedBlockhash call ends
\* by throwing an RPCError, not the RetryError or the raw error withRetry
\* threw, and returns no hash; and a getCachedBlockhash call fails in no other
\* way.
C11_BlockhashFailureIsRPCError ==
    [][\A c \in Invocations :
          /\ (cpc[c] \in {"slot", "fetch"} /\ pc[c] = "thrown"
                 /\ cpc'[c] # cpc[c]) =>
                /\ cpc'[c] = "failed"
                /\ ret'[c].kind = "error"
                /\ ret'[c].error.name = "RPCError"
                /\ ret'[c].error # result[c].error
                /\ IsInfix(result[c].error.msg, ret'[c].error.msg)
          /\ (cpc'[c] = "failed" /\ cpc[c] # "failed") =>
                /\ cpc[c] \in {"slot", "fetch"}
                /\ pc[c] = "thrown"]_vars

\* getLatestBlockhash failed five times with a retryable error: the
\* RetryError of withRetry reaches the caller inside an RPCError
C11_Witness ==
    /\ cpc["a"] = "failed"
    /\ ret["a"] = Thrown(RPCError(RetryError(5, ETooMany)))
    /\ Len(log) > 0
    /\ Last(log).kind = "failed"
    /\ Last(log).fetchCalls = 5
    /\ Last(log).fetchFails = 5

\* getSlot failed with a fatal error on its first request
C11_WitnessFatalSlot ==
    /\ cpc["a"] = "failed"
    /\ ret["a"] = Thrown(RPCError(ENotFound))
    /\ Len(log) > 0
    /\ Last(log).kind = "failed"
    /\ Last(log).fetchCalls = 0

\* ------------------------------------- claims on pumpFunBuy / pumpFunSell
\* the parameters the claims call invalid
InvalidParameters(a) ==
    \/ a.key = ""
    \/ a.mint = ""
    \/ a.mint \notin ValidPublicKeys
    \/ a.amount <= 0
    \/ a.slippage < 0
    \/ a.slippage > 100

NoRequests == \A k \in Kinds : net[k] = 0

\* C12: a pumpFunBuy / pumpFunSell call with an empty private key, an empty
\* or invalid mint, an amount <= 0 or a slippage outside [0, 1] fails with a
\* ValidationError, in every transaction mode, and has made no network
\* request.
C12_InvalidParametersRejected ==
    (spc # "idle" /\ InvalidParameters(args)) =>
        /\ spc = "failed"
        /\ outcome.kind = "error"
        /\ outcome.error.name = "ValidationError"
        /\ NoRequests
        /\ order = <<>>
        /\ pc["a"] = "idle"
        /\ cpc["a"] = "idle"

\* a sell in Simulation mode whose only fault is a slippage of 101 %
C12_Witness ==
    /\ spc = "failed"
    /\ args.op = "pumpFunSell"
    /\ args.mode = "Simulation"
    /\ args.key = "goodKey" /\ args.mint = "So1Mint" /\ args.amount = 1
    /\ args.slippage = 101
    /\ outcome.error.name = "ValidationError"
    /\ NoRequests

C12_WitnessEmptyKey ==
    /\ spc = "failed"
    /\ args.mode = "Other"
    /\ args.key = "" /\ args.mint = "So1Mint" /\ args.amount = 1
    /\ args.slippage = 100
    /\ outcome.error.name = "ValidationError"

\* C13: whenever pumpFunBuy / pumpFunSell fails with a ValidationError, of
\* whatever cause, the call has made no network request.
C13_ValidationBeforeNetwork ==
    (spc = "failed" /\ outcome.error.name = "ValidationError") => NoRequests

\* C14: a call in Simulation mode never requests sendAndConfirmTransaction,
\* getSignatureStatus or getTransaction, and never enters trackTransaction.
C14_SimulationNeverSubmits ==
    (spc # "idle" /\ args.mode = "Simulation") =>
        /\ net["sendAndConfirmTransaction"] = 0
        /\ net["getSignatureStatus"] = 0
        /\ net["getTransaction"] = 0
        /\ spc \notin {"submit", "track"}
        /\ tpc = "idle"
        /\ tracked = 0

\* a simulation has been run to its end, after one failed request
C14_Witness ==
    /\ spc = "done"
    /\ args.mode = "Simulation"
    /\ net["simulateTransaction"] = 2
    /\ net["sendAndConfirmTransaction"] = 0
    /\ outcome.kind = "value"
    /\ outcome.value.logs = Given(<<"log1", "log2">>)

\* C15: when simulateTransaction resolves with a non-null err, the call
\* fails with the TransactionError 'Simulation failed: ...' that carries the
\* log lines of the result (none when the result has no logs), the catch of
\* the call does not re-wrap it, and no further request is made.
C15_SimulationErrorIsTransactionError ==
    [][(spc = "simulate" /\ pc["a"] = "returned"
            /\ result["a"].value.value.err # Null) =>
          /\ spc' = "failed"
          /\ outcome'.kind = "error"
          /\ outcome'.error.name = "TransactionError"
          /\ outcome'.error.msg[1] = "Simulation"
          /\ outcome'.error.logs.given
          /\ outcome'.error.logs.v = result["a"].value.value.logs.v
          /\ net' = net
          /\ pc'["a"] = "idle"]_vars

C15_Witness ==
    /\ spc = "failed"
    /\ args.mode = "Simulation"
    /\ outcome.error.name = "TransactionError"
    /\ outcome.error.msg = <<"Simulation", "failed:", "InstructionError">>
    /\ outcome.error.logs = Given(<<"log1">>)
    /\ net["simulateTransaction"] = 1

\* the lifecycle stage a request belongs to: 1 Quoting, 2 Building,
\* 3 Simulating or Submitting, 4 Confirming
StageRank(k) ==
    CASE k = "getCoinData" -> 1
      [] k \in {"getAccountInfo", "getSlot", "getLatestBlockhash"} -> 2
      [] k \in {"simulateTransaction", "sendAndConfirmTransaction"} -> 3
      [] k \in {"getSignatureStatus", "getTransaction"} -> 4

InOrder(k) == \E j \in 1..Len(order) : order[j] = k

\* the caller asked for tracking, or gave no trackTx
TrackingRequested(config) == "trackTx" \notin config.given \/ config.trackTx

\* C16: the requests of a call follow the lifecycle Validating, Quoting
\* (getCoinData), Building (getAccountInfo, then the blockhash read), then
\* either Simulating or Submitting, then Confirming (only in Execution mode
\* with tracking), then the end of the call: no request before the
\* validation has passed, no stage skipped or gone back to, a request of a
\* new kind only when the operation before it has returned successfully,
\* never both a simulation and a submission, and no request once the call
\* has returned or thrown.
C16_LifecycleOrder ==
    /\ [](/\ order # <<>> => ~InvalidParameters(args)
          /\ order # <<>> => order[1] = "getCoinData"
          /\ \A j \in 1..(Len(order) - 1) :
                /\ StageRank(order[j]) <= StageRank(order[j + 1])
                /\ StageRank(order[j + 1]) <= StageRank(order[j]) + 1
          /\ \A i, j \in 1..Len(order) : order[i] = order[j] => i = j
          /\ ~(InOrder("simulateTransaction")
                   /\ InOrder("sendAndConfirmTransaction"))
          /\ InOrder("simulateTransaction") => args.mode = "Simulation"
          /\ InOrder("sendAndConfirmTransaction") => args.mode = "Execution"
          /\ InOrder("getSignatureStatus") =>
                /\ args.mode = "Execution"
                /\ TrackingRequested(args.config)
                /\ InOrder("sendAndConfirmTransaction")
          /\ InOrder("getTransaction") => InOrder("getSignatureStatus")
          /\ spc \in {"done", "failed"} => outcome # NoResult
          /\ spc \notin {"done", "failed"} => outcome = NoResult)
    /\ [][/\ (order' # order /\ order # <<>>) =>
                \/ pc["a"] = "returned"
                \/ spc = "blockhash" /\ cpc["a"] = "done"
          /\ spc \in {"done", "failed"} =>
                UNCHANGED <<spc, outcome, net, order>>]_vars

\* an execution that went through every stage
C16_Witness ==
    /\ spc = "done"
    /\ args.mode = "Execution"
    /\ order = <<"getCoinData", "getAccountInfo", "getSlot",
                 "getLatestBlockhash", "sendAndConfirmTransaction",
                 "getSignatureStatus", "getTransaction">>
    /\ net["getSignatureStatus"] = 3

C16_WitnessSimulated ==
    /\ spc = "done"
    /\ args.mode = "Simulation"
    /\ order = <<"getCoinData", "getAccountInfo", "getSlot",
                 "getLatestBlockhash", "simulateTransaction">>

\* C17: in Execution mode, getSignatureStatus is requested only after the
\* submission has returned a signature; tracking is entered if and only if
\* the caller's trackTx is true or the caller gave none; with tracking
\* disabled the call returns the signature and the expected output as soon
\* as the submission has returned, with no getSignatureStatus request.
C17_TrackingOnlyIfEnabled ==
    (spc # "idle" /\ args.mode = "Execution") =>
        /\ net["getSignatureStatus"] > 0 =>
              /\ TrackingRequested(args.config)
              /\ loc.signature \in Signatures
              /\ tsig = loc.signature
              /\ net["sendAndConfirmTransaction"] >= 1
        /\ spc = "submit" => (net["getSignatureStatus"] = 0 /\ tracked = 0)
        /\ (loc.signature # "" /\ TrackingRequested(args.config)) =>
              /\ net["getSignatureStatus"] >= 1
              /\ tracked = 1
        /\ (loc.signature # "" /\ ~TrackingRequested(args.config)) =>
              /\ spc = "done"
              /\ outcome.kind = "value"
              /\ outcome.value.success
              /\ outcome.value.signature = loc.signature
              /\ outcome.value.expectedOutput = ExpectedOutput(args, loc.coinData)
              /\ net["getSignatureStatus"] = 0
              /\ net["getTransaction"] = 0
              /\ tracked = 0

\* tracking switched off by the caller
C17_Witness ==
    /\ spc = "done"
    /\ args.mode = "Execution"
    /\ args.config = [given |-> {"trackTx"}, trackTx |-> FALSE]
    /\ outcome.kind = "value"
    /\ outcome.value.signature = "5xS1"
    /\ net["sendAndConfirmTransaction"] = 1
    /\ net["getSignatureStatus"] = 0

\* no config given: the call polls
C17_WitnessDefault ==
    /\ spc = "track"
    /\ args.mode = "Execution"
    /\ args.config.given = {}
    /\ net["getSignatureStatus"] = 2

\* ---------------------------------------------- claims on trackTransaction
\* C18: when a poll returns a status with a non-null err, whatever its
\* confirmation level, trackTransaction throws at once a TransactionError
\* that carries the signature: no further poll, no 2000 ms sleep and no
\* getTransaction request follow.
C18_ErrStatusFailsAtOnce ==
    [][(tpc = "poll" /\ pc["a"] = "returned"
            /\ result["a"].value.value # Null
            /\ result["a"].value.value.err # Null) =>
          /\ tpc' = "thrown"
          /\ tres'.kind = "error"
          /\ tres'.error.name = "TransactionError"
          /\ tres'.error.signature = Given(tsig)
          /\ polls' = polls
          /\ pollSleeps' = pollSleeps
          /\ txFetches' = txFetches
          /\ pc'["a"] = "idle"]_vars

\* the second poll reported a failed transaction at level finalized
C18_Witness ==
    /\ tpc = "thrown"
    /\ lastStatus = SigStatus(TxErr, "finalized")
    /\ tres = Thrown(TrackTransactionError(TxErr, tsig))
    /\ polls = 2
    /\ pollSleeps = 1
    /\ txFetches = 0

\* the status of a poll that neither fails nor ends the tracking
Pending(status) ==
    \/ status.value = Null
    \/ /\ status.value.err = Null
       /\ status.value.confirmationStatus \in {"processed", "confirmed"}

\* what C19 says of returns and of a pending status, up to the sleep
ReturnsOnlyWhenFinalized ==
    /\ [](tpc = "returned" =>
             /\ lastStatus = SigStatus(Null, "finalized")
             /\ txFetches = 1
             /\ tres.kind = "value")
    /\ [][(tpc = "getTx" /\ tpc' = "returned") =>
             tres' = Returned(result["a"].value)]_vars
    /\ [][(tpc = "poll" /\ pc["a"] = "returned"
               /\ Pending(result["a"].value)) =>
             /\ tpc' = "sleeping"
             /\ pollSleeps' = pollSleeps + 1
             /\ tres' = NoResult
             /\ UNCHANGED <<polls, txFetches>>]_vars

\* C19 as stated: trackTransaction returns only after a poll has returned a
\* status without err at level finalized, and returns what getTransaction
\* resolved with; a poll that returns no status or a status at level
\* processed or confirmed is followed by one 2000 ms sleep and then by
\* another poll.
C19_PendingStatusPollsAgain ==
    /\ ReturnsOnlyWhenFinalized
    /\ [][(tpc = "sleeping" /\ tpc' # "sleeping") =>
             /\ elapsed' >= elapsed + PollIntervalMs
             /\ tpc' = "poll"
             /\ polls' = polls + 1]_vars

\* C19, amended: ... is followed by one 2000 ms sleep, and then by another
\* poll if less than timeoutMs has elapsed since the start, else by the
\* time-out RPCError without another poll.
C19_PendingStatusPollsAgainUntilDeadline ==
    /\ ReturnsOnlyWhenFinalized
    /\ [][(tpc = "sleeping" /\ tpc' # "sleeping") =>
             /\ elapsed' >= elapsed + PollIntervalMs
             /\ IF elapsed' < timeoutMs
                THEN /\ tpc' = "poll"
                     /\ polls' = polls + 1
                ELSE /\ tpc' = "thrown"
                     /\ polls' = polls
                     /\ tres'.error.name = "RPCError"]_vars

\* a poll at level confirmed, one sleep, a poll at level finalized, and the
\* record of getTransaction returned
C19_Witness ==
    /\ tpc = "returned"
    /\ polls = 2
    /\ pollSleeps = 1
    /\ txFetches = 1
    /\ tres = Returned(ConfirmedTx(tsig))

\* the time-out struck after the sleep that followed an absent status
C19_WitnessDeadline ==
    /\ tpc = "thrown"
    /\ timeoutMs = 3000
    /\ polls = 2
    /\ pollSleeps = 2
    /\ lastStatus = AbsentStatus
    /\ tres = Thrown(TrackTimeoutError(3000))

\* a poll has returned a status that ends the tracking: an err, or the
\* level finalized
SawTerminalStatus ==
    /\ lastStatus # Null
    /\ lastStatus.value # Null
    /\ \/ lastStatus.value.err # Null
       \/ lastStatus.value.confirmationStatus = "finalized"

\* a request of the call failed for good: withRetry threw
PollFailed ==
    /\ tres.kind = "error"
    /\ tres.error.name = "RPCError"
    /\ SubSeq(tres.error.msg, 1, 4) = <<"Failed", "to", "track", "transaction:">>

\* the error names the time-out T
NamesTimeout(e, T) ==
    /\ e.name = "RPCError"
    /\ \E k \in 1..(Len(e.msg) - 1) :
          /\ e.msg[k] = ToString(T)
          /\ e.msg[k + 1] = "ms"

TrackInProgress == tpc \in {"poll", "getTx", "sleeping"}

TrackEnded == tpc \in {"returned", "thrown"}

\* C20: a trackTransaction call with time-out T in which no poll returns a
\* status with an err or at level finalized, and no request fails for good,
\* ends: it throws an RPCError that names T, and never returns a value; a
\* call in progress does not poll forever.
C20_TimesOutWithRPCError ==
    /\ []((TrackEnded /\ ~SawTerminalStatus /\ ~PollFailed) =>
             /\ tpc = "thrown"
             /\ tres.kind = "error"
             /\ NamesTimeout(tres.error, timeoutMs))
    /\ (TrackInProgress ~> TrackEnded)

\* two polls found no status, and the call with time-out 4000 ms timed out
C20_Witness ==
    /\ tpc = "thrown"
    /\ timeoutMs = 4000
    /\ polls = 2
    /\ pollSleeps = 2
    /\ lastStatus = AbsentStatus
    /\ tres.kind = "error"
    /\ NamesTimeout(tres.error, 4000)

\* a time-out that is not positive: the call times out before any poll
C20_WitnessNoPoll ==
    /\ tpc = "thrown"
    /\ timeoutMs = 0
    /\ polls = 0
    /\ tres.kind = "error"
    /\ NamesTimeout(tres.error, 0)

\* C21: once timeoutMs has elapsed since the start of a trackTransaction
\* call, the call ends, even while a status poll or the back-off sleep of
\* its withRetry is pending: its end does not wait for the RPC node.
C21_DeadlineEndsPendingPoll ==
    (TrackInProgress /\ elapsed >= timeoutMs) ~> TrackEnded

\* ------------------------------------------------------ claims on the quotes
\* a pool state with positive reserves
PositiveReserves(coin) ==
    coin.virtual_sol_reserves > 0 /\ coin.virtual_token_reserves > 0

\* a quote call has returned
QuoteReturned(op) ==
    spc = "done" /\ args.op = op /\ outcome.kind = "value"

\* C22: for a pool state with positive reserves and solIn > 0,
\* getBuyPriceQuote returns expectedOutputAmount = the integer
\* floor(solIn * virtualTokenReserves / virtualSolReserves), never rounded
\* up, and inputAmount = solIn; reserves 1000 / 100000 and solIn = 1 give 100.
C22_BuyQuoteIsExactFloor ==
    (QuoteReturned("getBuyPriceQuote") /\ PositiveReserves(loc.coinData)) =>
        LET q == outcome.value
            k == q.expectedOutputAmount
            n == args.amount * loc.coinData.virtual_token_reserves
            d == args.per * loc.coinData.virtual_sol_reserves
        IN /\ q.inputAmount.num = args.amount
           /\ q.inputAmount.den = args.per
           /\ k.fin
           /\ k.den = 1
           /\ k.num * d <= n
           /\ n < (k.num + 1) * d
           /\ (n = 100000 /\ d = 1000) => k.num = 100

\* the quote of the example: 1 SOL at reserves 1000 / 100000
C22_Witness ==
    /\ QuoteReturned("getBuyPriceQuote")
    /\ args.amount = 1 /\ args.per = 1
    /\ loc.coinData = CoinData(1000, 100000, 500)
    /\ outcome.value.expectedOutputAmount = Num(100, 1)

\* a quote that is rounded down: 1 SOL at reserves 3 / 100000
C22_WitnessRoundedDown ==
    /\ QuoteReturned("getBuyPriceQuote")
    /\ args.amount = 1 /\ args.per = 1
    /\ loc.coinData = CoinData(3, 100000, 500)
    /\ outcome.value.expectedOutputAmount = Num(33333, 1)

\* a buy or sell has built its transaction: the numbers of its trade
\* instruction
Built(op) ==
    /\ args.op = op
    /\ spc \in {"blockhash", "submit", "simulate", "done"}

TradeNumbers == loc.transaction.instructions[Len(loc.transaction.instructions)].data

\* C23: for a pool state with positive reserves, tokenIn > 0 and a slippage
\* in [0, 1], getSellPriceQuote returns the unfloored value
\* tokenIn * virtualSolReserves / virtualTokenReserves, and the sell
\* instruction carries the minimum output
\* floor(tokenIn * (1 - slippage) * virtualSolReserves / virtualTokenReserves).
C23_SellQuoteUnflooredGuardFloored ==
    /\ (QuoteReturned("getSellPriceQuote") /\ PositiveReserves(loc.coinData)) =>
          LET x == outcome.value.expectedOutputAmount
              n == args.amount * loc.coinData.virtual_sol_reserves
              d == args.per * loc.coinData.virtual_token_reserves
          IN /\ x.fin
             /\ x.num * d = n * x.den
    /\ (Built("pumpFunSell") /\ PositiveReserves(loc.coinData)) =>
          LET k == TradeNumbers[2]
              n == args.amount * (100 - args.slippage)
                       * loc.coinData.virtual_sol_reserves
              d == 100 * args.per * loc.coinData.virtual_token_reserves
          IN /\ k.fin
             /\ k.den = 1
             /\ k.num * d <= n
             /\ n < (k.num + 1) * d

\* the sell quote of 1 token at reserves 3 / 2 is 3/2
C23_Witness ==
    /\ QuoteReturned("getSellPriceQuote")
    /\ args.amount = 1 /\ args.per = 1
    /\ loc.coinData = CoinData(3, 2, 500)
    /\ outcome.value.expectedOutputAmount = Num(3, 2)

\* a sell of 3 tokens at slippage 0.25 and reserves 3 / 2: the guard is
\* floor(3.375) = 3
C23_WitnessGuard ==
    /\ Built("pumpFunSell")
    /\ spc = "done"
    /\ args.amount = 3 /\ args.slippage = 25
    /\ loc.coinData = CoinData(3, 2, 500)
    /\ TradeNumbers[2] = Num(3, 1)

\* the priceImpact a quote of amount q has at pool state coin
ImpactOf(op, q, coin) ==
    IF op = "getBuyPriceQuote"
    THEN BuyQuote(Num(q[1], q[2]), coin).priceImpact
    ELSE SellQuote(Num(q[1], q[2]), coin).priceImpact

\* C24: the priceImpact of a buy quote is solIn / liquidity and that of a
\* sell quote is solOut / liquidity; at a pool state with positive reserves
\* and liquidity, a larger input has a strictly larger priceImpact, for buy
\* and for sell.
C24_PriceImpactMonotonic ==
    (/\ spc = "done"
     /\ args.op \in QuoteOps
     /\ outcome.kind = "value"
     /\ PositiveReserves(loc.coinData)
     /\ loc.coinData.liquidity_sol > 0) =>
        LET q == outcome.value
            x == IF args.op = "getBuyPriceQuote"
                 THEN q.inputAmount
                 ELSE q.expectedOutputAmount
        IN /\ q.priceImpact.fin
           /\ q.priceImpact.num * (x.den * loc.coinData.liquidity_sol)
                 = x.num * q.priceImpact.den
           /\ \A a, b \in QuoteAmounts :
                 a[1] * b[2] < b[1] * a[2] =>
                     RatLess(ImpactOf(args.op, a, loc.coinData),
                             ImpactOf(args.op, b, loc.coinData))

\* the sell quote of the example: 10000 tokens at reserves 1000 / 100000 and
\* liquidity 500 give 100 SOL and priceImpact 0.2
C24_Witness ==
    /\ QuoteReturned("getSellPriceQuote")
    /\ args.amount = 10000 /\ args.per = 1
    /\ loc.coinData = CoinData(1000, 100000, 500)
    /\ outcome.value.expectedOutputAmount = Num(100, 1)
    /\ outcome.value.priceImpact = Num(1, 5)

\* the buy quote of the example: priceImpact 0.002
C24_WitnessBuy ==
    /\ QuoteReturned("getBuyPriceQuote")
    /\ args.amount = 1 /\ args.per = 1
    /\ loc.coinData = CoinData(1000, 100000, 500)
    /\ outcome.value.priceImpact = Num(1, 500)

\* C25: for solIn > 0 and a slippage in [0, 1], the buy instruction carries
\* the maximum cost floor(solIn * (1 + slippage) * LAMPORTS_PER_SOL), which
\* depends on solIn and the slippage alone, whatever the pool state.
C25_MaxSolCostFromInputAndSlippage ==
    Built("pumpFunBuy") =>
        LET k == TradeNumbers[2]
            n == args.amount * (100 + args.slippage) * (LAMPORTS_PER_SOL \div 100)
            d == args.per
        IN /\ k.fin
           /\ k.den = 1
           /\ k.num * d <= n
           /\ n < (k.num + 1) * d

\* a buy of 1/3 SOL at slippage 0.25: floor(416666666.67) lamports
C25_Witness ==
    /\ Built("pumpFunBuy")
    /\ spc = "done"
    /\ args.amount = 1 /\ args.per = 3 /\ args.slippage = 25
    /\ TradeNumbers[2] = Num(416666666, 1)

\* the same buy at another pool state carries the same maximum cost
C25_WitnessOtherPool ==
    /\ Built("pumpFunBuy")
    /\ spc = "done"
    /\ args.amount = 1 /\ args.per = 3 /\ args.slippage = 25
    /\ loc.coinData = CoinData(3, 1, 500)
    /\ TradeNumbers[2] = Num(416666666, 1)

\* the getCoinData calls of the buy or sell so far: the requests of one call
\* follow one another
CoinDataCalls == {j \in DOMAIN order : order[j] = "getCoinData"}

\* C26: a pumpFunBuy / pumpFunSell call makes exactly one getCoinData call,
\* and the amounts of its trade instruction (buy: tokenOut, sell: the minimum
\* output) and the expectedOutput it returns are all computed from the pool
\* state that call returned.
C26_SingleSnapshot ==
    /\ (args.op \in Ops /\ spc \notin {"idle", "failed"}) =>
          /\ Cardinality(CoinDataCalls) = 1
          /\ order[1] = "getCoinData"
    /\ (args.op \in Ops /\ spc = "failed") => Cardinality(CoinDataCalls) <= 1
    /\ Built("pumpFunBuy") =>
          LET vsr == loc.coinData.virtual_sol_reserves
              vtr == loc.coinData.virtual_token_reserves
          IN /\ TradeNumbers[1] =
                    Num((args.amount * LAMPORTS_PER_SOL * vtr)
                            \div (args.per * vsr), 1)
             /\ loc.expectedOutput = TradeNumbers[1]
    /\ Built("pumpFunSell") =>
          LET vsr == loc.coinData.virtual_sol_reserves
              vtr == loc.coinData.virtual_token_reserves
          IN /\ TradeNumbers[2] =
                    Num((args.amount * (100 - args.slippage) * vsr)
                            \div (100 * args.per * vtr), 1)
             /\ loc.expectedOutput =
                    Num((args.amount * vsr) \div (args.per * vtr),
                        LAMPORTS_PER_SOL)
    /\ (args.op \in Ops /\ spc = "done") =>
          outcome.value.expectedOutput = loc.expectedOutput

\* a sell whose getCoinData call needed two requests: one pool state, and
\* both amounts from it
C26_Witness ==
    /\ Built("pumpFunSell")
    /\ spc = "done"
    /\ net["getCoinData"] = 2
    /\ args.amount = 4 /\ args.slippage = 50
    /\ loc.coinData = CoinData(3, 2, 500)
    /\ TradeNumbers[2] = Num(3, 1)
    /\ outcome.value.expectedOutput = Num(6, LAMPORTS_PER_SOL)

\* C27: the expectedOutput a pumpFunBuy call returns is the buy quote
\* floor(solIn * virtualTokenReserves / virtualSolReserves) of the pool state
\* it fetched, and the one a pumpFunSell call returns is the sell quote
\* tokenIn * virtualSolReserves / virtualTokenReserves: both agree with
\* getBuyPriceQuote / getSellPriceQuote on the same pool state and input.
C27_ExpectedOutputIsQuote ==
    (args.op \in Ops /\ spc = "done") =>
        LET x == outcome.value.expectedOutput
            vsr == loc.coinData.virtual_sol_reserves
            vtr == loc.coinData.virtual_token_reserves
        IN IF args.op = "pumpFunBuy"
           THEN x = Num((args.amount * vtr) \div (args.per * vsr), 1)
           ELSE Rat(x.num, x.den) = Rat(args.amount * vsr, args.per * vtr)

\* the reserve the quote of the operation divides by is zero
ZeroDivisor(op, coin) ==
    IF op \in {"pumpFunBuy", "getBuyPriceQuote"}
    THEN coin.virtual_sol_reserves = 0
    ELSE coin.virtual_token_reserves = 0

\* C28: when the pool state has a zero reserve in the divisor
\* (virtualSolReserves for buy, virtualTokenReserves for sell), the quote
\* functions and the quoting step of buy / sell fail with an error: no quote
\* is returned and no default reserve is put in its place.
C28_ZeroReserveFails ==
    (/\ spc \in {"blockhash", "submit", "simulate", "done", "failed"}
     /\ loc.coinData # Null
     /\ ZeroDivisor(args.op, loc.coinData)) =>
        /\ spc = "failed"
        /\ outcome.kind = "error"

\* ------------------------------------------- claims on the errors of a swap
\* the error that reaches the catch of pumpFunBuy / pumpFunSell when the
\* awaited call throws: from getCoinData, from the withRetry of the account
\* lookup or of the simulation, from createTransaction, from trackTransaction
InnerThrows ==
    \/ spc \in {"coin", "account", "simulate"} /\ pc["a"] = "thrown"
    \/ spc = "blockhash" /\ cpc["a"] = "failed"
    \/ spc = "track" /\ tpc = "thrown"

InnerError ==
    CASE spc = "coin" -> CoinDataError(result["a"].error)
      [] spc \in {"account", "simulate"} -> result["a"].error
      [] spc = "blockhash" -> ret["a"].error
      [] spc = "track" -> tres.error

\* the TransactionError names op and carries the message of e
WrapsAs(t, op, e) ==
    /\ t.name = "TransactionError"
    /\ Len(t.msg) = 4 + Len(e.msg)
    /\ SubSeq(t.msg, 1, 3) = <<"Error", "in", op>>
    /\ SubSeq(t.msg, 5, Len(t.msg)) = e.msg

C29_WitnessRPCError ==
    /\ spc = "failed"
    /\ args.op = "pumpFunSell"
    /\ cpc["a"] = "failed"
    /\ outcome.error.name = "TransactionError"
    /\ SubSeq(outcome.error.msg, 1, 8)
           = <<"Error", "in", "pumpFunSell", ":", "Failed", "to", "get",
               "blockhash:">>

\* the TransactionError of trackTransaction, passed through with its
\* signature
C29_WitnessPassThrough ==
    /\ spc = "failed"
    /\ tpc = "thrown"
    /\ outcome.error = TrackTransactionError(TxErr, tsig)

\* a retried operation of the call has used up its attempts on failures that
\* are all retryable
ExhaustedOnRetryable ==
    /\ args.op \in Ops
    /\ spc \in {"coin", "account", "submit", "simulate"}
    /\ pc["a"] = "thrown"
    /\ result["a"].error.name = "RetryError"
    /\ \A j \in DOMAIN fails["a"] : fails["a"][j] \in RetryableErrors

\* C30: when a retried network operation of pumpFunBuy / pumpFunSell has
\* used up its attempts on retryable failures, the caller sees an error of
\* kind RetryError that carries the number of attempts, a kind no call that
\* failed on a fatal failure shows.
C30_ExhaustionSeenAsRetryError ==
    [][(ExhaustedOnRetryable /\ spc' = "failed") =>
          /\ outcome'.error.name = "RetryError"
          /\ outcome'.error.attempts = result["a"].error.attempts]_vars

\* ------------------------------ claims on what a TransactionError carries
\* trackTransaction has thrown while the call was confirming: the submit
\* wrapper had returned a signature
FailsWhileConfirming ==
    /\ args.op \in Ops
    /\ spc = "track"
    /\ tpc = "thrown"
    /\ spc' = "failed"

\* the simulation came back with an err
SimulationFails ==
    /\ args.op \in Ops
    /\ spc = "simulate"
    /\ pc["a"] = "returned"
    /\ result["a"].value.value.err # Null
    /\ spc' = "failed"

\* C31: a TransactionError that pumpFunBuy / pumpFunSell throws after the
\* submission has returned a signature (an err status, a failed poll or the
\* time-out of the tracking) carries that signature, and the
\* TransactionError of a failed simulation carries the logs of the
\* simulation.
C31_TransactionErrorCarriesSignatureOrLogs ==
    [][/\ (FailsWhileConfirming /\ outcome'.error.name = "TransactionError") =>
              outcome'.error.signature = Given(loc.signature)
       /\ SimulationFails =>
              /\ outcome'.error.name = "TransactionError"
              /\ outcome'.error.logs.given
              /\ result["a"].value.value.logs.given =>
                     outcome'.error.logs = result["a"].value.value.logs]_vars

\* ------------------------------------------------------ claims on getCoinData
\* the HTTP status a failed attempt saw: the statusCode of the APIError the
\* operation threw, or the status of error.response (0: no response)
StatusOf(e) == IF e.name = "APIError" THEN e.statusCode ELSE e.status

\* the response or the rejection of axios.get reaches the operation
CoinDataDelivered == spc = "getCoinData" /\ reply["a"] # Null /\ reply'["a"] = Null

\* the HTTP status of the pending response (0: no response)
PendingStatus ==
    IF reply["a"].ok THEN reply["a"].value.status ELSE reply["a"].error.status

\* C32: every HTTP response to getCoinData whose status is not 200 makes the
\* call fail, with an APIError whose statusCode is the status of the
\* response; a 200 response makes the call return the body of the response
\* unchanged.
C32_Non200IsAPIErrorWithStatus ==
    [][/\ (CoinDataDelivered /\ PendingStatus \notin {0, 200}) =>
              pc'["a"] = "thrown"
       /\ (CoinDataDelivered /\ PendingStatus = 200) =>
              /\ pc'["a"] = "returned"
              /\ result'["a"].value = reply["a"].value
       /\ (spc = "getCoinData" /\ spc' = "failed"
              /\ StatusOf(Last(fails["a"])) # 0) =>
              /\ outcome'.error.name = "APIError"
              /\ outcome'.error.statusCode = StatusOf(Last(fails["a"]))
       /\ (spc = "getCoinData" /\ spc' = "done") =>
              /\ result["a"].value.status = 200
              /\ outcome'.value = result["a"].value.data]_vars

\* ------------------------------------------------ claims on bufferFromUInt64
\* a string of decimal digits and nothing else
IsDecimalString(cs) == cs # <<>> /\ AllOf(cs, IsDigit)

\* the integer a string of decimal digits stands for: by integer arithmetic
\* for up to three digits, from a table for the longer inputs
DecimalStringValue(cs) ==
    IF Len(cs) <= 3
    THEN LET n == IF Len(cs) = 1 THEN DigitOf(cs[1])
                  ELSE IF Len(cs) = 2 THEN 10 * DigitOf(cs[1]) + DigitOf(cs[2])
                  ELSE 100 * DigitOf(cs[1]) + 10 * DigitOf(cs[2])
                           + DigitOf(cs[3])
         IN IF n = 0 THEN <<>> ELSE <<n>>
    ELSE CASE Len(cs) = 5 /\ cs[5] = "5" -> <<65535>>
           [] Len(cs) = 5 /\ cs[5] = "6" -> <<0, 1>>
           [] Len(cs) = 10 -> <<0, 0, 1>>
           [] Len(cs) = 16 -> <<0, 0, 0, 32>>
           [] Len(cs) = 20 /\ cs[2] = "2" -> <<2770, 60191, 43404, 43860>>
           [] Len(cs) = 20 /\ cs[20] = "5" -> <<65535, 65535, 65535, 65535>>
           [] Len(cs) = 20 /\ cs[20] = "6" -> <<0, 0, 0, 0, 1>>

\* the inputs the round trip is claimed for: a decimal string of an integer
\* below 2^64, or a number that is an integer from 0 to 2^53 - 1
RoundTripInput(value) ==
    IF value.type = "string"
    THEN /\ IsDecimalString(value.chars)
         /\ Len(DecimalStringValue(value.chars)) <= 4
    ELSE /\ value.integer
         /\ ~value.neg \/ value.mag = <<>>
         /\ ~MagGreater(value.mag, MAX_SAFE_INTEGER)

\* the integer such an input stands for
InputValue(value) ==
    IF value.type = "string" THEN DecimalStringValue(value.chars) ELSE value.mag

BufferCalled == args.op = "bufferFromUInt64" /\ spc \in {"done", "failed"}

\* C33: bufferFromUInt64 of a decimal string of an integer v with
\* 0 <= v < 2^64, or of a number v that is an integer with 0 <= v <= 2^53 - 1,
\* returns a buffer of 8 bytes whose unsigned little-endian 64-bit decoding
\* is v; every other input fails with a ValidationError.
C33_BufferRoundTrip ==
    BufferCalled =>
        IF RoundTripInput(args.value)
        THEN /\ outcome.kind = "value"
             /\ Len(outcome.value) = 8
             /\ \A j \in 1..8 : outcome.value[j] \in 0..255
             /\ ReadBigUInt64LE(outcome.value) = InputValue(args.value)
        ELSE /\ outcome.kind = "error"
             /\ outcome.error.name = "ValidationError"

\* --------------------------------------- claims on the built transaction
\* createTransaction has returned the transaction of the call
TransactionBuilt ==
    /\ args.op \in Ops
    /\ spc \in {"submit", "simulate", "track", "done"}

\* the names of the instructions of the transaction, in order
InstructionNames ==
    [j \in 1..Len(loc.transaction.instructions) |->
        loc.transaction.instructions[j].ix]

\* C34: the transaction pumpFunBuy / pumpFunSell builds holds, in this
\* order, the compute-unit-limit instruction, a compute-unit-price
\* instruction if and only if priorityFee > 0, an instruction that creates
\* the associated token account if and only if the account lookup found no
\* account, and the trade instruction last; its fee payer is the signer and
\* its recent blockhash is what getCachedBlockhash returned in this call.
C34_TransactionComposition ==
    TransactionBuilt =>
        LET names == InstructionNames
            n == Len(names)
            price == {j \in 1..n : names[j] = "setComputeUnitPrice"}
            create == {j \in 1..n : names[j] = "createAssociatedTokenAccount"}
        IN /\ names[1] = "setComputeUnitLimit"
           /\ names[n] = args.op
           /\ {j \in 1..n : names[j] = "setComputeUnitLimit"} = {1}
           /\ {j \in 1..n : names[j] = args.op} = {n}
           /\ price = IF args.fee > 0 THEN {2} ELSE {}
           /\ create = IF loc.tokenAccountInfo = Null THEN {n - 1} ELSE {}
           /\ n = 2 + Cardinality(price) + Cardinality(create)
           /\ loc.transaction.feePayer = args.key
           /\ ret["a"].kind = "value"
           /\ loc.transaction.recentBlockhash = ret["a"].value

\* a buy with a priority fee by a trader without a token account: four
\* instructions
C34_Witness ==
    /\ TransactionBuilt
    /\ args.op = "pumpFunBuy"
    /\ args.fee > 0
    /\ loc.tokenAccountInfo = Null
    /\ InstructionNames = <<"setComputeUnitLimit", "setComputeUnitPrice",
                            "createAssociatedTokenAccount", "pumpFunBuy">>

\* a sell without a priority fee by a trader who has the account: two
\* instructions
C34_WitnessShort ==
    /\ TransactionBuilt
    /\ args.op = "pumpFunSell"
    /\ args.fee = 0
    /\ loc.tokenAccountInfo # Null
    /\ InstructionNames = <<"setComputeUnitLimit", "pumpFunSell">>

\* ------------------------------------------ claims on the sleeps of withRetry
\* C35: withRetry sleeps once between two consecutive invocations of the
\* operation and nowhere else: the number of sleeps is the number of
\* invocations minus one whenever an invocation is pending or the call has
\* ended, so no sleep follows the last failed attempt before the RetryError,
\* none precedes the propagation of a fatal failure, and none happens when
\* the first invocation succeeds; during a sleep the next invocation is still
\* to come.
C35_SleepsBetweenInvocations ==
    \A i \in Invocations :
        /\ pc[i] \in {"awaiting", "returned", "thrown"} =>
              Len(sleeps[i]) = calls[i] - 1
        /\ pc[i] = "sleeping" => Len(sleeps[i]) = calls[i]
        /\ pc[i] = "idle" => Len(sleeps[i]) = 0 /\ calls[i] = 0

\* three invocations, two sleeps, then RetryError
C35_Witness ==
    /\ pc["a"] = "thrown"
    /\ result["a"].error.name = "RetryError"
    /\ calls["a"] = 3
    /\ Len(sleeps["a"]) = 2

\* a fatal failure of the second invocation: one sleep
C35_WitnessFatal ==
    /\ pc["a"] = "thrown"
    /\ result["a"].error = ENotFound
    /\ pol["a"].maxAttempts = 3
    /\ calls["a"] = 2
    /\ Len(sleeps["a"]) = 1

\* the first invocation succeeds: no sleep
C35_WitnessFirstSucceeds ==
    /\ pc["a"] = "returned"
    /\ calls["a"] = 1
    /\ sleeps["a"] = <<>>

\* ------------------------------------- claims on a failed blockhash read
\* C36: a getCachedBlockhash call that fails, in getSlot or in
\* getLatestBlockhash, leaves the cached hash and the expiry height as they
\* were before the call; a following call that observes a height below that
\* expiry (slot is -1 while no height was observed) returns the old hash
\* without a fetch.
C36_FailedCallLeavesCache ==
    /\ \A j \in 1..Len(log) :
          log[j].kind = "failed" =>
              /\ log[j].cacheHash = log[j].hashBefore
              /\ log[j].cacheExpiry = log[j].expiryBefore
    /\ (/\ Len(log) = 2
        /\ log[1].kind = "failed"
        /\ log[1].hashBefore # -1
        /\ log[2].slot >= 0
        /\ log[2].slot < log[1].expiryBefore) =>
           /\ log[2].kind = "cache"
           /\ log[2].hash = log[1].hashBefore
           /\ log[2].fetchCalls = 0
           /\ log[2].cacheHash = log[1].hashBefore
           /\ log[2].cacheExpiry = log[1].expiryBefore
    /\ (cpc["a"] = "failed" /\ log # <<>>) =>
           /\ Last(log).kind = "failed"
           /\ Last(log).cacheHash
                  = IF cachedBlockhash = Null THEN -1 ELSE cachedBlockhash.blockhash
           /\ cachedBlockhash # Null => Last(log).cacheExpiry = blockhashExpirySlot

\* getSlot failed with a hash in the cache, and the next call returned that
\* hash without a fetch
C36_Witness ==
    /\ Len(log) = 2
    /\ log[1].kind = "failed"
    /\ log[1].hashBefore # -1
    /\ log[1].fetchCalls = 0
    /\ log[2].kind = "cache"
    /\ log[2].slot < log[1].expiryBefore
    /\ log[2].hash = log[1].hashBefore

\* getLatestBlockhash failed on a refresh of an expired hash: the expired
\* pair is still in the cache
C36_WitnessFetchFailed ==
    /\ log # <<>>
    /\ Last(log).kind = "failed"
    /\ Last(log).fetchFails > 0
    /\ Last(log).hashBefore # -1
    /\ Last(log).cacheHash = Last(log).hashBefore
    /\ cachedBlockhash # Null

\* ------------------------------------------- claims on concurrent refreshes
\* C37: when the ledger hands out expiry heights that do not decrease in the
\* order of the getLatestBlockhash requests, the cached expiry height never
\* decreases under any interleaving of concurrent getCachedBlockhash calls:
\* a refresh that completes late does not replace a newer pair by an older
\* one.
C37_ExpiryNeverDecreases ==
    [][blockhashExpirySlot' >= blockhashExpirySlot]_vars

\* ------------------------------------------- claims on the slippage bounds
\* C38: for a pool state with positive reserves, an input > 0 and a slippage
\* in [0, 1], the minimum output of a sell is at most
\* floor(tokenIn * virtualSolReserves / virtualTokenReserves), equal to it at
\* slippage 0 and 0 at slippage 1, and the maximum cost of a buy is at least
\* floor(solIn * LAMPORTS_PER_SOL), equal to it at slippage 0; the minimum
\* output does not increase and the maximum cost does not decrease when the
\* slippage grows.
C38_SlippageBoundsOrdered ==
    LET a == args.amount
        p == args.per
        s == args.slippage
        k == TradeNumbers[2]
    IN /\ (Built("pumpFunSell") /\ PositiveReserves(loc.coinData)) =>
              LET vsr == loc.coinData.virtual_sol_reserves
                  vtr == loc.coinData.virtual_token_reserves
                  MinAt(t) == (a * (100 - t) * vsr) \div (100 * p * vtr)
              IN /\ k.fin /\ k.den = 1
                 /\ k.num <= (a * vsr) \div (p * vtr)
                 /\ s = 0 => k.num = (a * vsr) \div (p * vtr)
                 /\ s = 100 => k.num = 0
                 /\ \A t \in 0..100 :
                       /\ t >= s => MinAt(t) <= k.num
                       /\ t <= s => MinAt(t) >= k.num
       /\ (Built("pumpFunBuy") /\ PositiveReserves(loc.coinData)) =>
              LET MaxAt(t) == (a * (100 + t) * (LAMPORTS_PER_SOL \div 100)) \div p
              IN /\ k.fin /\ k.den = 1
                 /\ k.num >= (a * LAMPORTS_PER_SOL) \div p
                 /\ s = 0 => k.num = (a * LAMPORTS_PER_SOL) \div p
                 /\ \A t \in 0..100 :
                       /\ t >= s => MaxAt(t) >= k.num
                       /\ t <= s => MaxAt(t) <= k.num

\* a sell of 4 tokens at reserves 3 : 1 and slippage 0.5: the minimum output
\* is 6, below the 12 of slippage 0
C38_Witness ==
    /\ Built("pumpFunSell")
    /\ spc = "done"
    /\ args.amount = 4 /\ args.per = 1 /\ args.slippage = 50
    /\ loc.coinData = CoinData(3, 1, 500)
    /\ TradeNumbers[2] = Num(6, 1)

\* the same sell at slippage 1: the minimum output is 0
C38_WitnessFullSlippage ==
    /\ Built("pumpFunSell")
    /\ spc = "done"
    /\ args.amount = 4 /\ args.per = 1 /\ args.slippage = 100
    /\ loc.coinData = CoinData(3, 1, 500)
    /\ TradeNumbers[2] = Num(0, 1)

\* a buy of 1/2 SOL at slippage 0 and at slippage 1: 500000000 and
\* 1000000000 lamports
C38_WitnessBuy ==
    /\ Built("pumpFunBuy")
    /\ spc = "done"
    /\ args.amount = 1 /\ args.per = 2
    /\ \/ args.slippage = 0 /\ TradeNumbers[2] = Num(500000000, 1)
       \/ args.slippage = 100 /\ TradeNumbers[2] = Num(1000000000, 1)

\* ------------------------------------------------ claims on resubmission
\* the runs of requests of kind k in the call so far
RunsOf(k) == Cardinality({j \in DOMAIN order : order[j] = k})

\* the requests that quote and build the transaction
BuildKinds == {"getCoinData", "getAccountInfo", "getSlot", "getLatestBlockhash"}

Submitting == args.op \in Ops /\ args.mode = "Execution" /\ spc = "submit"

\* C39: an Execution call builds its transaction once: it reads the
\* blockhash cache once, invokes submit-and-confirm at most 5 times, and
\* submits the same transaction, with the same blockhash and instructions, on
\* every attempt; between the attempts nothing is built, quoted or read
\* again, and a call starts without a transaction, so none is taken over from
\* another call.
C39_BuiltOncePerExecution ==
    /\ []((args.op \in Ops /\ args.mode = "Execution"
              /\ InOrder("sendAndConfirmTransaction")) =>
             /\ RunsOf("getCoinData") = 1
             /\ RunsOf("getAccountInfo") = 1
             /\ RunsOf("getSlot") = 1
             /\ RunsOf("getLatestBlockhash") <= 1
             /\ \A j, k \in DOMAIN order :
                    (order[j] = "sendAndConfirmTransaction" /\ k > j) =>
                        order[k] \notin BuildKinds
             /\ net["sendAndConfirmTransaction"] \in 1..5
             /\ loc.transaction # Null
             /\ loc.transaction.recentBlockhash = ret["a"].value)
    /\ [][/\ (Submitting /\ spc' = "submit") =>
                /\ loc' = loc
                /\ order' = order
                /\ \A k \in Kinds \ {"sendAndConfirmTransaction"} : net'[k] = net[k]
                /\ UNCHANGED <<cachedBlockhash, blockhashExpirySlot, completed>>
          /\ (spc # "coin" /\ spc' = "coin") =>
                /\ loc' = NoLocals
                /\ net' = [NoNet EXCEPT !["getCoinData"] = 1]]_vars

\* the second call of a run submitted three times and returned; its
\* transaction carries the blockhash it read
C39_Witness ==
    /\ args.op \in Ops
    /\ spc = "done"
    /\ completed = 2
    /\ net["sendAndConfirmTransaction"] = 3
    /\ loc.transaction.recentBlockhash = ret["a"].value

\* five submissions, all failed: the call gives up
C39_WitnessExhausted ==
    /\ args.op \in Ops
    /\ spc = "failed"
    /\ net["sendAndConfirmTransaction"] = 5
    /\ outcome.error.name = "TransactionError"

\* a later call of the run carries another blockhash than the first hash the
\* ledger handed out
C39_WitnessFreshHash ==
    /\ args.op \in Ops
    /\ spc = "submit"
    /\ completed = 2
    /\ loc.transaction.recentBlockhash > 0
    /\ [blockhash |-> 0, lastValidBlockHeight |-> BlockhashValidity] \in issued


\* ------------------------------------------------ claims on the deadline
\* a step that starts a status poll: the top of the loop has been passed
StartsPoll == tpc # "poll" /\ tpc' = "poll"

\* the withRetry of a status poll has thrown
PollThrew == tpc = "poll" /\ pc["a"] = "thrown"

\* C40: trackTransaction starts a status poll only while the time elapsed
\* since its start is below timeoutMs, the condition being evaluated before
\* every poll: a call with timeoutMs <= 0 throws the time-out RPCError
\* without a poll, a loop that finds the deadline reached throws it without
\* another poll, and when the withRetry of a poll throws (a RetryError
\* included) the call throws an RPCError and polls no more.
C40_NoPollPastDeadline ==
    /\ [][/\ StartsPoll =>
                /\ elapsed' < timeoutMs'
                /\ polls' = (IF tracked' = tracked THEN polls ELSE 0) + 1
          /\ (tpc = "sleeping" /\ elapsed' >= timeoutMs) =>
                /\ tpc' = "thrown"
                /\ polls' = polls
                /\ tres'.kind = "error"
                /\ NamesTimeout(tres'.error, timeoutMs)
          /\ PollThrew =>
                /\ tpc' = "thrown"
                /\ polls' = polls
                /\ tres'.kind = "error"
                /\ tres'.error.name = "RPCError"
                /\ tres'.error.msg =
                      <<"Failed", "to", "track", "transaction:">>
                         \o result["a"].error.msg
          /\ (tpc = "thrown" /\ tracked' = tracked) =>
                /\ tpc' = "thrown"
                /\ polls' = polls]_vars
    /\ []((tracked > 0 /\ timeoutMs <= 0) =>
             /\ tpc = "thrown"
             /\ polls = 0
             /\ tres.kind = "error"
             /\ NamesTimeout(tres.error, timeoutMs))

\* the second poll's response came after the deadline of 3000 ms: no third
\* poll
C40_Witness ==
    /\ tpc = "thrown"
    /\ timeoutMs = 3000
    /\ polls = 2
    /\ elapsed >= 3000
    /\ tres.kind = "error"
    /\ NamesTimeout(tres.error, 3000)

\* a negative time-out: no poll at all
C40_WitnessNegative ==
    /\ tpc = "thrown"
    /\ timeoutMs = -1000
    /\ polls = 0
    /\ elapsed = 0
    /\ tres.kind = "error"
    /\ NamesTimeout(tres.error, -1000)

\* the first poll used up its five attempts: RPCError, one poll made
C40_WitnessRetryError ==
    /\ tpc = "thrown"
    /\ polls = 1
    /\ elapsed < timeoutMs
    /\ tres.kind = "error"
    /\ tres.error.name = "RPCError"
    /\ Len(tres.error.msg) >= 8
    /\ SubSeq(tres.error.msg, 5, 8) =
          <<"Failed", "after", NumTok(5), "attempts:">>

\* a poll failed with an error that is not retried, before the deadline
C40_WitnessFatal ==
    /\ tpc = "thrown"
    /\ polls = 2
    /\ elapsed < timeoutMs
    /\ lastStatus # Null
    /\ PollFailed
    /\ Len(tres.error.msg) >= 6
    /\ SubSeq(tres.error.msg, 5, 6) # <<"Failed", "after">>

====
